---- MODULE Spec2Model ----
(***************************************************************************)
(* cyberWatch: the measurement, enrichment and topology pipeline.          *)
(*                                                                         *)
(*   Spec      relational store (measurements, hops), the enricher         *)
(*             (enrichment/enricher.py), the graph projector               *)
(*             (enrichment/graph_builder.py), the worker's and the         *)
(*             on-demand route's measurement writers.                      *)
(*   FairSpec  the same pipeline with the graph store always reachable     *)
(*             and the enricher and projector loops scheduled fairly.      *)
(*   SpecEdges _build_edges applied to arbitrary hop sequences.            *)
(*   SpecCB    one CircuitBreaker (enrichment/__init__.py) under a clock.  *)
(*   SpecWorker  Worker.run (workers/worker.py): the rate limiter, the     *)
(*             semaphore and the task handlers under a clock.              *)
(*   FairWorker  the same with the loop, the handlers and the clock        *)
(*             scheduled fairly.                                           *)
(*   SpecRL    the ip_api RateLimiter and lookup_ip_api under a clock.       *)
(*   SpecPdb   fetch_asn_org (enrichment/peeringdb.py): cache, breaker and *)
(*             the coroutines of one enrichment batch.                     *)
(*   SpecQueue TargetQueue (scheduler/queue.py): one producer, one consumer.*)
(*   SpecDelivery  the producers of tasks (API, DNS collector, ASN expander, *)
(*             remeasurement scheduler), the queue and the worker's        *)
(*             handling of one task at a time; FairDelivery schedules the  *)
(*             worker and the remeasurement scheduler fairly.              *)
(*   SpecTx    insert_measurement (db/pg.py) statement by statement inside  *)
(*             its transaction, with the enricher and the projector        *)
(*             reading beside it.                                          *)
(*   SpecPihole  run_collector (collector/dns_collector.py) with one        *)
(*             PiholeApiSource (collector/sources.py): dialect, session,   *)
(*             cursor; FairPihole keeps the polling loop going.            *)
(*   SpecTask  Worker.run with handle_task in steps: the traceroute child  *)
(*             process, the stored measurement, the deadline, the          *)
(*             interrupt and the closing of pool and queue.                *)
(***************************************************************************)
EXTENDS Integers, Sequences, FiniteSets, TLC

\* Python None / SQL NULL.  Every nullable field holds NULL or a value >= 0.
NULL == -1

\* ---------------------------------------------------------------- bounds
\* longest hop list given to _build_edges in SpecEdges
MaxLen == 4
\* the clock of SpecCB stops here
MaxTime == 6
\* recovery_time of the breaker, in ticks of the clock
RecoveryTime == 2
\* record_failure() calls one breaker takes in one run
MaxFailures == 5
\* the history counter cb_passed saturates here
MaxPassed == 3
\* measurements ever inserted in one run of the model
MaxMeas == 2
\* graph-store failures (ServiceUnavailable / crash of the projector) in one run
MaxFails == 1
\* LIMIT of fetch_unenriched_hops (200 in the source), scaled to the model
HopBatchLimit == 3
\* LIMIT of fetch_measurements_for_graph (50 in the source), scaled to the model
GraphBatchLimit == 1
\* _cache_ttl of the PeeringDB cache (86400 s in the source), in ticks
CacheTtl == 3
\* rate_limit_per_minute (30 by default), scaled to the model
RateLimitPerMinute == 2
\* the window of Worker._apply_rate_limit (60 s in the source), in ticks
MinuteSeconds == 3
\* max_concurrent_traceroutes (5 by default), scaled to the model
MaxConcurrent == 2
\* task_timeout_seconds (300 s by default), in ticks
TaskTimeout == 2
\* tasks the worker takes from the queue in one run
MaxTasks == 3
\* the clock of SpecWorker stops here
MaxWkTime == 4
\* max_requests of the ip_api RateLimiter (45 in the source), scaled to the model
MaxRequests == 2
\* window_seconds of the ip_api RateLimiter (60 s in the source), in ticks
WindowSeconds == 3
\* the clock of SpecPdb stops here
MaxPdbTime == 4
\* coroutines of one asyncio.gather that call fetch_asn_org
MaxCallers == 2
\* enqueue() calls of the producer in one run of SpecQueue
MaxEnqueued == 3
\* tasks waiting in the queue of SpecDelivery at one time
MaxQueued == 2
\* tasks the worker takes and loses (handler raises, times out, worker crashes)
MaxDrops == 2
\* insert_measurement calls in one run of SpecTx
MaxTx == 2
\* most hops of one traceroute in SpecTx
MaxHops == 2
\* the query times the Pi-hole reports are 1..MaxTs
MaxTs == 3
\* the local time zone is this many ticks east or west of UTC, or UTC
MaxUtcOffset == 2

VARIABLES
    \* ---- relational store
    measurements,   \* Seq of [success, enriched, graph_built, source]; index = id = started_at order
    hops,           \* hops[m]: Seq of [ip, rtt, asn] in hop_number order
    \* ---- enricher (enricher.run_once / process_batch)
    en_pc,          \* "idle" | "update" | "mark"
    en_records,     \* the batch: Seq of <<measurement_id, hop index>>
    en_idx,         \* next record of the batch to write
    en_mids,        \* measurement ids of the batch still to be checked
    \* ---- graph projector (graph_builder.run_once / process_measurement)
    gb_pc,          \* "idle" | "measure" | "merge"
    gb_queue,       \* measurement ids fetched by run_once, not yet processed
    gb_edges,       \* edges of the current measurement still to be merged
    gb_fails,       \* failures of the graph store so far (bounded by MaxFails)
    \* ---- graph store
    nodes,          \* set of asn: the AS nodes
    routes,         \* set of [a, b, observed_count, min_rtt, max_rtt]: the ROUTE edges
    \* ---- history
    gb_done,        \* gb_done[m]: [asns, edges] the last projection of m read and merged
    upserts,        \* upserts[<<a, b>>]: [count, known] the _merge_edge calls made for
                    \*   the pair and the set of non-null RTTs they carried
    \* ---- _build_edges on its own (SpecEdges)
    be_pc,          \* "input" | "done"
    be_hops,        \* the hop rows given to _build_edges
    be_edges,       \* the list it returned
    \* ---- one CircuitBreaker under a clock (SpecCB)
    cb,             \* [state, failures, last_failure_time, half_open_calls]
    now,            \* time.time(), in ticks
    cb_op,          \* history: the last call, "is_open" | "record_success" | "record_failure" | "none"
    cb_ret,         \* history: what the last is_open() returned
    cb_consec,      \* history: record_failure() calls since the last record_success()
    cb_failed_at,   \* history: time of the most recent record_failure()
    cb_passed,      \* history: is_open() calls that found the breaker HALF_OPEN and returned
                    \*   false since the last record_success() / record_failure()
    cb_trans,       \* history: the state changes made so far, as <<from, to>>
    \* ---- fetch_asn_org (SpecPdb); its breaker is cb, its clock is now
    pdb_cache,      \* _cache: asn -> [ts, val], val "data" (org_name set) | "empty"
    pdb_calls,      \* pdb_calls[c]: the fetch_asn_org call coroutine c is in, or IdleCall
    pdb_mock,       \* "500": the server answers every GET /net with HTTP 500; "any": it
                    \*   answers each request as it likes
    pdb_last,       \* history: the call that returned last
    pdb_streak,     \* history: consecutive calls that returned an AsnOrg without
                    \*   organisation data since pdb_mock was last set to "500"
    \* ---- RateLimiter and lookup_ip_api (SpecRL); the clock is now
    rl_tokens,      \* RateLimiter._tokens: Seq of acquisition times
    rl_granted,     \* history: the times at which try_acquire() returned true
    rl_sent,        \* history: the times at which lookup_ip_api sent a request
    rl_last,        \* history: the last call, [op, refused, sent, ret]
    \* ---- Worker.run and its task handlers (SpecWorker); the clock is now
    wk_pc,          \* the loop: "dequeue" | "sleep" (inside _apply_rate_limit)
    wk_task,        \* the task the loop holds while it sleeps, 0 when none
    wk_wake,        \* oldest + 60: the sleep ends after this time
    wk_dequeued,    \* tasks taken from the queue so far; tasks are numbered 1, 2, ...
    rate_limiter_tokens,  \* Worker.rate_limiter_tokens: Seq of times
    wk_handlers,    \* wk_handlers[t]: [pc, at], pc "none" | "waiting" (for the semaphore)
                    \*   | "running" (since at) | "ok" | "error" | "timeout"
    wk_sem,         \* free slots of Worker.semaphore
    wk_started,     \* history: the times at which a handler was created
    wk_completed,   \* history: the times at which a traceroute completed and was stored
    wk_held,        \* history: the tasks _apply_rate_limit has put to sleep
    \* ---- Worker.run with handle_task in steps (SpecTask); the clock is now
    tk_loop,        \* Worker.run: "dequeue" (while True) | "finally" | "pool_closed" | "stopped"
    tk_dequeued,    \* tasks taken from the queue so far; tasks are numbered 1, 2, ...
    tk_handlers,    \* tk_handlers[t]: [pc, at], pc "none" | "waiting" (for the semaphore)
                    \*   | "traceroute" | "insert" (both inside wait_for since at)
                    \*   | "ok" | "error" | "timeout" | "cancelled"
    tk_sem,         \* free slots of Worker.semaphore
    tk_procs,       \* the tasks whose traceroute child process is alive
    tk_rows,        \* the tasks whose measurement row is stored
    tk_pool,        \* the asyncpg pool: "open" | "closed"
    tk_queue,       \* the queue's Redis connection: "open" | "closed"
    \* ---- TargetQueue (SpecQueue)
    qu_list,        \* the Redis list cyberWatch:targets: Seq of JSON payloads
    qu_in,          \* history: the tasks passed to enqueue(), in call order
    qu_out,         \* history: what dequeue() returned, in call order: <<task>>, or <<>> for None
    qu_empty,       \* history: qu_empty[i] iff the list was empty at the i-th dequeue()
    \* ---- producers, queue and worker (SpecDelivery)
    dl_queue,       \* the Redis list: Seq of [target_ip, source]
    dl_task,        \* <<task>> the worker has dequeued and not finished, or <<>>
    dl_targets,     \* the target_ip values of table targets
    dl_fresh,       \* the targets with a measurement younger than interval_hours
    dl_pending,     \* history: the target_ip values enqueued and not measured since
    dl_drops,       \* history: tasks lost so far
    \* ---- insert_measurement in steps (SpecTx)
    tx_rows,        \* tx_rows[m]: [status, planned, nhops, asn, enriched]: status "none" |
                    \*   "open" (row written, transaction open) | "committed" |
                    \*   "rolled_back"; planned = hops of the traceroute; nhops = hop rows
                    \*   written; asn = hop rows the enricher has filled in
    rd_partial,     \* history: a reader has read a measurement with part of its hops
    \* ---- run_collector and its PiholeApiSource (SpecPihole)
    ph_pc,          \* run_collector: "boot" (before build_source) | "run" (while True)
    ph_enabled,     \* pihole settings: enabled
    ph_version,     \* PiholeApiSource._api_version: "none" | "v5" | "v6"
    ph_sid,         \* PiholeApiSource._session_id is set
    ph_cursor,      \* PiholeApiSource.last_seen_ts
    ph_utcoffset,   \* the collector's local time zone: local time - UTC, in ticks
    ph_restart,     \* collector_status.restart_requested_at is later than the
                    \*   observer's last check
    ph_selected_on, \* history: the answer of the auth endpoint on which the dialect was set
    ph_silent,      \* history: PiholeAuthError was raised and the settings are unchanged since
    ph_last,        \* history: the last fetch_new call, [start, emitted, cursor, requests,
                    \*   expired, reauths, retries, outcome, silent]
    \* ---- asns table (upsert_asn)
    asns,           \* the row of the ASN: <<>> (no row) or <<[field |-> Optional value]>>
    as_patch,       \* history: the keyword arguments of the last upsert_asn call, <<>> or <<patch>>
    as_twice,        \* history: the last two upsert_asn calls had the same arguments
    \* ---- enrichment batch, ASN metadata (process_batch)
    eb_last,         \* history: the last batch, [done, contributed, before]
    \* ---- two writers of one ASN (upsert_asn, statement by statement)
    cw_rows,        \* the rows of the ASN in asns, in insertion order
    cw_pc,          \* cw_pc[w]: "idle" | "selected" (after the SELECT) | "done" | "failed"
    cw_existing,    \* cw_existing[w]: the SELECT of writer w found a row
    cw_patch,        \* cw_patch[w]: the arguments of writer w's call, <<>> or <<patch>>
    \* ---- targets.last_seen and its writers
    tg_now,         \* the clock (datetime.utcnow())
    tg_last_seen,   \* tg_last_seen[ip]: NULL (no row in targets) or targets.last_seen
    tg_pending,      \* event times not yet written: [ip, at, by], by = "dns" (a query the
                    \*   source holds, queried_at) | "measurement" (a traceroute that
                    \*   ended, completed_at)
    \* ---- ASN expansion (asn_expander.run_once)
    ex_now,         \* the clock (NOW())
    ex_completed,   \* ex_completed[asn]: asns.enrichment_completed_at, or NULL
    ex_known,       \* the ASNs for which fetch_asn_org returns prefixes
    ex_ever,        \* history: the ASNs some run has selected
    ex_last,         \* history: the last run, [at, selected]
    \* ---- remeasurement scheduler (run_remeasurement_cycle)
    rm_now,         \* the clock (NOW())
    rm_measured,    \* rm_measured[ip]: MAX(measurements.completed_at) of the target, or NULL
    rm_enabled,     \* remeasurement settings: enabled
    rm_last,         \* history: the last cycle, [ran, enabled, at, measured, enqueued]
    \* ---- settings and their consumers (Worker.run, run_enrichment.main)
    st_db,          \* settings table: st_db[key] = the stored JSON, field -> Optional value
    st_pc,          \* Worker.run: "boot" (before the settings are loaded) | "run" (while True)
    st_used,        \* the worker's rate_limit_per_minute, max_concurrent, task_timeout_seconds
    st_sleep,       \* run_enrichment.main: sleep_seconds
    st_age,          \* history: st_age[key] = 1 when the key's consumer has gone through a
                    \*   loop iteration since the key was last written, else 0
    \* ---- sanitize_log_data
    sl_call,         \* the call made: <<>> (none yet) or <<[data, result]>>, result = <<>> when
                    \*   the call raised, else <<the dictionary returned>>
    \* ---- two task handlers, one new target (insert_measurement, statement by statement)
    tr_pc,          \* tr_pc[h]: "idle" | "selected" | "target" | "measurement" | "done" | "failed"
    tr_existing,    \* tr_existing[h]: the SELECT of _get_or_create_target found the row
    tr_planned,     \* tr_planned[h]: the number of hops of the handler's traceroute
    tr_hops,        \* tr_hops[h]: hop rows the handler's transaction has written
    tr_targets,     \* target rows for the address: the handlers that inserted one, with
                    \*   the state of their transaction, [by, committed]
    tr_stored,       \* committed measurements: [by, hops]
    \* ---- process_cycle of the DNS collector, up to dns_queries
    dq_log,         \* the query times in the Pi-hole's log
    dq_cursor,      \* PiholeApiSource.last_seen_ts
    dq_queries,     \* the rows of dns_queries (by queried_at)
    dq_db_up,       \* PostgreSQL accepts statements
    dq_last         \* history: the last cycle, <<>> or <<[raw, filtered, raised]>>

pipeVars == <<measurements, hops, en_pc, en_records, en_idx, en_mids,
              gb_pc, gb_queue, gb_edges, gb_fails, nodes, routes, gb_done, upserts>>

beVars == <<be_pc, be_hops, be_edges>>

cbVars == <<cb, now, cb_op, cb_ret, cb_consec, cb_failed_at, cb_passed, cb_trans>>

lkVars == <<pdb_cache, pdb_calls, pdb_mock, pdb_last, pdb_streak>>
rlVars == <<rl_tokens, rl_granted, rl_sent, rl_last>>
wkVars == <<wk_pc, wk_task, wk_wake, wk_dequeued, rate_limiter_tokens, wk_handlers, wk_sem,
            wk_started, wk_completed, wk_held>>
tkVars == <<tk_loop, tk_dequeued, tk_handlers, tk_sem, tk_procs, tk_rows, tk_pool, tk_queue>>
\* the state of the models added after the lookups, the limiter and the worker loop
quVars == <<qu_list, qu_in, qu_out, qu_empty>>
dlVars == <<dl_queue, dl_task, dl_targets, dl_fresh, dl_pending, dl_drops>>
txVars == <<tx_rows, rd_partial>>
phVars == <<ph_pc, ph_enabled, ph_version, ph_sid, ph_cursor, ph_utcoffset, ph_restart,
            ph_selected_on, ph_silent, ph_last>>
asVars == <<asns, as_patch, as_twice>>
ebVars == <<eb_last>>
cwVars == <<cw_rows, cw_pc, cw_existing, cw_patch>>
tgVars == <<tg_now, tg_last_seen, tg_pending>>
exVars == <<ex_now, ex_completed, ex_known, ex_ever, ex_last>>
rmVars == <<rm_now, rm_measured, rm_enabled, rm_last>>
stVars == <<st_db, st_pc, st_used, st_sleep, st_age>>
slVars == <<sl_call>>
trVars == <<tr_pc, tr_existing, tr_planned, tr_hops, tr_targets, tr_stored>>
dqVars == <<dq_log, dq_cursor, dq_queries, dq_db_up, dq_last>>
svcVars == <<tkVars, quVars, dlVars, txVars, phVars, asVars, ebVars, cwVars, tgVars, exVars, rmVars, stVars, slVars, trVars, dqVars>>
extVars == <<lkVars, rlVars, wkVars, svcVars>>
vars == <<pipeVars, beVars, cbVars, extVars>>

\* ------------------------------------------------ inputs of the pipeline
\* Hop addresses.  AsnOf is what Team Cymru answers for an address when the
\* lookup succeeds: address 3 is a private address that has no origin AS.
IPs == {1, 2, 3}
AsnOf(ip) == CASE ip = 1 -> 20 [] ip = 2 -> 10 [] OTHER -> NULL

HopIn(ip, rtt) == [ip |-> ip, rtt |-> rtt, asn |-> NULL]
TimeoutHop == HopIn(NULL, NULL)

\* Parsed traceroute outputs (worker.run_traceroute): the hop lists a
\* measurement is written with.
TracePaths ==
    { <<>>,
      <<TimeoutHop>>,
      <<HopIn(1, 1), HopIn(2, 2)>>,
      <<HopIn(2, NULL), TimeoutHop, HopIn(1, NULL)>>,
      <<HopIn(2, 1), HopIn(1, 1)>>,
      <<HopIn(1, 1), HopIn(1, 2)>>,
      <<HopIn(3, 1), HopIn(2, 1)>> }

\* lookup_asn(ip): the origin AS, or an AsnInfo with asn=None on timeout,
\* NXDOMAIN, missing whois, unparsable answer.
LookupAsn(ip) == {AsnOf(ip), NULL}

Take(s, n) == IF Len(s) <= n THEN s ELSE SubSeq(s, 1, n)

\* -------------------------------------------------------- relational store
MeasurementIds == 1..Len(measurements)

\* pg.remaining_unenriched_hops
RemainingUnenrichedHops(m) ==
    Cardinality({i \in 1..Len(hops[m]) : hops[m][i].asn = NULL /\ hops[m][i].ip # NULL})

RECURSIVE AllHopIds(_)
AllHopIds(m) ==
    IF m > Len(measurements) THEN <<>>
    ELSE [i \in 1..Len(hops[m]) |-> <<m, i>>] \o AllHopIds(m + 1)

\* pg.fetch_unenriched_hops: ORDER BY m.started_at, h.hop_number LIMIT $1
FetchUnenrichedHops ==
    LET Lacking(id) == /\ hops[id[1]][id[2]].ip # NULL
                       /\ hops[id[1]][id[2]].asn = NULL
                       /\ measurements[id[1]].success
    IN Take(SelectSeq(AllHopIds(1), Lacking), HopBatchLimit)

\* pg.mark_measurement_enriched
MarkMeasurementEnriched(ms, m) == [ms EXCEPT ![m].enriched = TRUE]

\* pg.mark_measurement_graph_built
MarkMeasurementGraphBuilt(ms, m) == [ms EXCEPT ![m].graph_built = TRUE]

\* (mutant) the projector's query without its `enriched = TRUE` condition
ReadyForGraphUnenriched(m) == ~measurements[m].graph_built

\* pg.fetch_measurements_for_graph: WHERE enriched AND NOT graph_built
ReadyForGraph(m) == measurements[m].enriched /\ ~measurements[m].graph_built

FetchMeasurementsForGraph ==
    Take(SelectSeq([m \in MeasurementIds |-> m], ReadyForGraph), GraphBatchLimit)

\* pg.fetch_hops_for_measurement: WHERE asn IS NOT NULL ORDER BY hop_number
FetchHopsForMeasurement(m) ==
    LET HasAsn(h) == h.asn # NULL IN SelectSeq(hops[m], HasAsn)


\* ------------------------------------------------------------ graph store
Max2(x, y) == IF x >= y THEN x ELSE y
Min2(x, y) == IF x <= y THEN x ELSE y

\* (mutant) the smaller of the known RTTs
RttValueMin(prev, node) ==
    LET rtt_candidates == {x \in {prev.rtt, node.rtt} : x # NULL}
    IN IF rtt_candidates = {} THEN NULL
       ELSE CHOOSE x \in rtt_candidates : \A y \in rtt_candidates : x <= y

\* graph_builder._build_edges, lines 47-48: max of the known RTTs, else None
RttValue(prev, node) ==
    LET rtt_candidates == {x \in {prev.rtt, node.rtt} : x # NULL}
    IN IF rtt_candidates = {} THEN NULL
       ELSE CHOOSE x \in rtt_candidates : \A y \in rtt_candidates : y <= x

\* graph_builder._build_edges: the loop from hop i on; prev is <<>> (None) or
\* <<node>>, the last hop that had an ASN.
RECURSIVE BuildEdgesFrom(_, _, _)
BuildEdgesFrom(hs, i, prev) ==
    IF i > Len(hs) THEN <<>>
    ELSE IF hs[i].asn = NULL THEN BuildEdgesFrom(hs, i + 1, prev)
    ELSE LET node == hs[i]
             edge == IF prev # <<>> /\ node.asn # prev[1].asn
                     THEN <<[a |-> prev[1].asn, b |-> node.asn, rtt |-> RttValue(prev[1], node)]>>
                     ELSE <<>>
         IN edge \o BuildEdgesFrom(hs, i + 1, <<node>>)

BuildEdges(hs) == BuildEdgesFrom(hs, 1, <<>>)

\* (mutant) the edge merged in the direction of the path
CanonicalAsWalked(edge) == edge

\* graph_builder.process_measurement, lines 97-99: order the ASN pair
Canonical(edge) ==
    IF edge.a > edge.b THEN [a |-> edge.b, b |-> edge.a, rtt |-> edge.rtt] ELSE edge

\* graph_builder._merge_edge, the two MERGE (x:AS {asn: ...}) clauses
MergeNodes(ns, edge) == ns \cup {edge.a, edge.b}

\* graph_builder._merge_edge, MERGE (a)-[r:ROUTE]->(b) ON CREATE / ON MATCH
OnMatch(r, rtt) ==
    [r EXCEPT !.observed_count = @ + 1,
              !.min_rtt = IF r.min_rtt = NULL \/ rtt = NULL THEN r.min_rtt ELSE Min2(r.min_rtt, rtt),
              !.max_rtt = IF r.max_rtt = NULL \/ rtt = NULL THEN r.max_rtt ELSE Max2(r.max_rtt, rtt)]

OnCreate(edge) ==
    [a |-> edge.a, b |-> edge.b, observed_count |-> 1, min_rtt |-> edge.rtt, max_rtt |-> edge.rtt]

MergeRoute(rs, edge) ==
    LET matched == {r \in rs : r.a = edge.a /\ r.b = edge.b}
    IN IF matched = {} THEN rs \cup {OnCreate(edge)}
       ELSE (rs \ matched) \cup {OnMatch(r, edge.rtt) : r \in matched}

\* ---------------------------------------------------------------- history
NoProjection == [asns |-> {}, edges |-> <<>>]

AsnsOf(hs) == {hs[i].asn : i \in 1..Len(hs)}

RecordUpsert(us, edge) ==
    LET k == <<edge.a, edge.b>>
        known == {edge.rtt} \ {NULL}
    IN IF k \in DOMAIN us
       THEN [us EXCEPT ![k] = [count |-> @.count + 1, known |-> @.known \cup known]]
       ELSE [j \in DOMAIN us \cup {k} |->
                IF j = k THEN [count |-> 1, known |-> known] ELSE us[j]]

\* ---------------------------------------------------- measurement writers
\* worker.handle_task -> pg.insert_measurement: one transaction writes the
\* measurement and its hops; success = (exit code 0 and a hop was parsed).
WorkerInsert ==
    /\ Len(measurements) < MaxMeas
    /\ \E path \in TracePaths, exit_ok \in BOOLEAN :
        /\ measurements' = Append(measurements,
               [success |-> exit_ok /\ Len(path) > 0, enriched |-> FALSE,
                graph_built |-> FALSE, source |-> "worker"])
        /\ hops' = Append(hops, path)
    /\ gb_done' = Append(gb_done, NoProjection)
    /\ UNCHANGED <<en_pc, en_records, en_idx, en_mids, gb_pc, gb_queue, gb_edges,
                   gb_fails, nodes, routes, upserts>>
    /\ UNCHANGED <<beVars, cbVars, extVars>>

\* api/routes/traceroute.py run -> _lookup_hop_details -> _save_measurement:
\* every hop address is looked up once (ip_to_enrichment is keyed by address),
\* hops are written with what the lookup gave, and the measurement is marked
\* enriched when the list of looked-up hops is not empty.
SaveMeasurement ==
    /\ Len(measurements) < MaxMeas
    /\ \E path \in TracePaths, exit_ok \in BOOLEAN, resolved \in [IPs -> BOOLEAN] :
        LET enriched_hops == {i \in 1..Len(path) : path[i].ip # NULL}
            Enrichment(h) == IF h.ip # NULL /\ resolved[h.ip] THEN AsnOf(h.ip) ELSE NULL
        IN /\ measurements' = Append(measurements,
                  [success |-> exit_ok /\ Len(path) > 0, enriched |-> enriched_hops # {},
                   graph_built |-> FALSE, source |-> "web_ui"])
           /\ hops' = Append(hops, [i \in 1..Len(path) |-> [path[i] EXCEPT !.asn = Enrichment(path[i])]])
    /\ gb_done' = Append(gb_done, NoProjection)
    /\ UNCHANGED <<en_pc, en_records, en_idx, en_mids, gb_pc, gb_queue, gb_edges,
                   gb_fails, nodes, routes, upserts>>
    /\ UNCHANGED <<beVars, cbVars, extVars>>

\* ------------------------------------------------------------- enricher
\* enricher.run_once: fetch the batch; nothing to do -> return False (sleep).
EnricherRunOnce ==
    /\ en_pc = "idle"
    /\ LET records == FetchUnenrichedHops
       IN IF records = <<>>
          THEN UNCHANGED <<en_pc, en_records, en_idx>>
          ELSE /\ en_records' = records
               /\ en_idx' = 1
               /\ en_pc' = "update"
    /\ UNCHANGED <<measurements, hops, en_mids, gb_pc, gb_queue, gb_edges, gb_fails,
                   nodes, routes, gb_done, upserts>>
    /\ UNCHANGED <<beVars, cbVars, extVars>>

\* enricher.process_batch, lines 76-111: one record of the batch.  The lookup
\* of the record (gathered before the loop) either raised, and the record is
\* skipped, or gave an AsnInfo whose asn is written to the hop as it is.
\* After the last record the ids of the batch's measurements are collected.
EnricherUpdateHop ==
    /\ en_pc = "update"
    /\ LET m == en_records[en_idx][1]
           i == en_records[en_idx][2]
       IN \E raised \in BOOLEAN, asn \in LookupAsn(hops[m][i].ip) :
            hops' = IF raised THEN hops ELSE [hops EXCEPT ![m][i].asn = asn]
    /\ IF en_idx < Len(en_records)
       THEN /\ en_idx' = en_idx + 1
            /\ UNCHANGED <<en_pc, en_mids>>
       ELSE /\ en_idx' = 1
            /\ en_pc' = "mark"
            /\ en_mids' = {en_records[k][1] : k \in 1..Len(en_records)}
    /\ UNCHANGED <<measurements, en_records, gb_pc, gb_queue, gb_edges, gb_fails,
                   nodes, routes, gb_done, upserts>>
    /\ UNCHANGED <<beVars, cbVars, extVars>>

\* enricher.process_batch, lines 164-174: one measurement of the batch
EnricherMark ==
    /\ en_pc = "mark"
    /\ \E m \in en_mids :
        /\ measurements' = IF RemainingUnenrichedHops(m) = 0
                           THEN MarkMeasurementEnriched(measurements, m)
                           ELSE measurements
        /\ en_mids' = en_mids \ {m}
        /\ en_pc' = IF en_mids' = {} THEN "idle" ELSE "mark"
        /\ en_records' = IF en_mids' = {} THEN <<>> ELSE en_records
    /\ UNCHANGED <<hops, en_idx, gb_pc, gb_queue, gb_edges, gb_fails,
                   nodes, routes, gb_done, upserts>>
    /\ UNCHANGED <<beVars, cbVars, extVars>>

\* ------------------------------------------------------ graph projector
\* graph_builder.run_once: fetch the measurements to project
GraphRunOnce ==
    /\ gb_pc = "idle"
    /\ LET ms == FetchMeasurementsForGraph
       IN IF ms = <<>>
          THEN UNCHANGED <<gb_pc, gb_queue>>
          ELSE /\ gb_queue' = ms
               /\ gb_pc' = "measure"
    /\ UNCHANGED <<measurements, hops, en_pc, en_records, en_idx, en_mids, gb_edges,
                   gb_fails, nodes, routes, gb_done, upserts>>
    /\ UNCHANGED <<beVars, cbVars, extVars>>

\* run_once's loop: the next measurement, or the end of the run
GraphAdvance(queue) == IF queue = <<>> THEN "idle" ELSE "measure"

\* graph_builder.process_measurement, lines 85-92: fetch the hops that have an
\* ASN, build the edges; without hops or without edges the measurement is
\* marked graph_built at once.
ProcessMeasurement ==
    /\ gb_pc = "measure"
    /\ LET m == Head(gb_queue)
           edges == BuildEdges(FetchHopsForMeasurement(m))
       IN /\ gb_done' = [gb_done EXCEPT ![m] = [asns |-> AsnsOf(FetchHopsForMeasurement(m)), edges |-> <<>>]]
          /\ IF edges = <<>>
             THEN /\ measurements' = MarkMeasurementGraphBuilt(measurements, m)
                  /\ gb_queue' = Tail(gb_queue)
                  /\ gb_pc' = GraphAdvance(Tail(gb_queue))
                  /\ UNCHANGED gb_edges
             ELSE /\ gb_edges' = edges
                  /\ gb_pc' = "merge"
                  /\ UNCHANGED <<measurements, gb_queue>>
    /\ UNCHANGED <<hops, en_pc, en_records, en_idx, en_mids, gb_fails, nodes, routes, upserts>>
    /\ UNCHANGED <<beVars, cbVars, extVars>>

\* graph_builder.process_measurement, lines 96-100: one edge of the loop
MergeEdge ==
    /\ gb_pc = "merge"
    /\ gb_edges # <<>>
    /\ LET edge == Canonical(Head(gb_edges))
       IN /\ nodes' = MergeNodes(nodes, edge)
          /\ routes' = MergeRoute(routes, edge)
          /\ upserts' = RecordUpsert(upserts, edge)
          /\ gb_done' = [gb_done EXCEPT ![Head(gb_queue)].edges = Append(@, edge)]
    /\ gb_edges' = Tail(gb_edges)
    /\ UNCHANGED <<measurements, hops, en_pc, en_records, en_idx, en_mids,
                   gb_pc, gb_queue, gb_fails>>
    /\ UNCHANGED <<beVars, cbVars, extVars>>

\* graph_builder.process_measurement, line 101: all edges merged
MarkGraphBuilt ==
    /\ gb_pc = "merge"
    /\ gb_edges = <<>>
    /\ measurements' = MarkMeasurementGraphBuilt(measurements, Head(gb_queue))
    /\ gb_queue' = Tail(gb_queue)
    /\ gb_pc' = GraphAdvance(Tail(gb_queue))
    /\ UNCHANGED <<hops, en_pc, en_records, en_idx, en_mids, gb_edges, gb_fails,
                   nodes, routes, gb_done, upserts>>
    /\ UNCHANGED <<beVars, cbVars, extVars>>

\* A statement of the projection raises (ServiceUnavailable from the graph
\* store, or the process dies): process_measurement and run_once are left
\* without mark_measurement_graph_built; run_enrichment.main catches
\* ServiceUnavailable and goes on with the next iteration of its loop.
GraphFail ==
    /\ gb_pc = "merge"
    /\ gb_fails < MaxFails
    /\ gb_fails' = gb_fails + 1
    /\ gb_pc' = "idle"
    /\ gb_queue' = <<>>
    /\ gb_edges' = <<>>
    /\ UNCHANGED <<measurements, hops, en_pc, en_records, en_idx, en_mids,
                   nodes, routes, gb_done, upserts>>
    /\ UNCHANGED <<beVars, cbVars, extVars>>

\* --------------------------------------------------------- specification
PipeInit ==
    /\ measurements = <<>>
    /\ hops = <<>>
    /\ en_pc = "idle"
    /\ en_records = <<>>
    /\ en_idx = 1
    /\ en_mids = {}
    /\ gb_pc = "idle"
    /\ gb_queue = <<>>
    /\ gb_edges = <<>>
    /\ gb_fails = 0
    /\ nodes = {}
    /\ routes = {}
    /\ gb_done = <<>>
    /\ upserts = [k \in {} |-> NoProjection]

\* _build_edges and the breaker are at rest while the pipeline runs
EdgesIdle ==
    /\ be_pc = "done"
    /\ be_hops = <<>>
    /\ be_edges = <<>>

\* CircuitBreaker's field defaults, __init__.py lines 60-63
NewBreaker ==
    [state |-> "closed", failures |-> 0, last_failure_time |-> 0, half_open_calls |-> 0]

BreakerIdle ==
    /\ cb = NewBreaker
    /\ now = 0
    /\ cb_op = "none"
    /\ cb_ret = FALSE
    /\ cb_consec = 0
    /\ cb_failed_at = 0
    /\ cb_passed = 0
    /\ cb_trans = {}

\* the AS numbers looked up
Asns == {10, 20}
Callers == 1..MaxCallers

\* a coroutine that is not inside fetch_asn_org
IdleCall == [pc |-> "idle", asn |-> NULL, val |-> "empty", http |-> 0, age |-> NULL,
             stored |-> "none", resp |-> "none", recovering |-> FALSE, counted |-> FALSE]
NoCall == [asn |-> NULL, ret |-> "empty", hit |-> FALSE, http |-> 0, age |-> NULL,
           stored |-> "none", resp |-> "none", recovering |-> FALSE, counted |-> FALSE,
           state_after |-> "closed"]

LookupIdle ==
    /\ pdb_cache = [a \in {} |-> NULL]
    /\ pdb_calls = [c \in Callers |-> IdleCall]
    /\ pdb_mock = "any"
    /\ pdb_last = NoCall
    /\ pdb_streak = 0

NoLimiterCall == [op |-> "none", refused |-> FALSE, sent |-> FALSE, ret |-> "empty"]

LimiterIdle ==
    /\ rl_tokens = <<>>
    /\ rl_granted = <<>>
    /\ rl_sent = <<>>
    /\ rl_last = NoLimiterCall

Tasks == 1..MaxTasks

WorkerIdle ==
    /\ wk_pc = "dequeue"
    /\ wk_task = 0
    /\ wk_wake = 0
    /\ wk_dequeued = 0
    /\ rate_limiter_tokens = <<>>
    /\ wk_handlers = [t \in Tasks |-> [pc |-> "none", at |-> 0]]
    /\ wk_sem = MaxConcurrent
    /\ wk_started = <<>>
    /\ wk_completed = <<>>
    /\ wk_held = {}

TaskIdle ==
    /\ tk_loop = "dequeue"
    /\ tk_dequeued = 0
    /\ tk_handlers = [t \in Tasks |-> [pc |-> "none", at |-> 0]]
    /\ tk_sem = MaxConcurrent
    /\ tk_procs = {}
    /\ tk_rows = {}
    /\ tk_pool = "open"
    /\ tk_queue = "open"

QueueIdle ==
    /\ qu_list = <<>>
    /\ qu_in = <<>>
    /\ qu_out = <<>>
    /\ qu_empty = <<>>

DeliveryIdle ==
    /\ dl_queue = <<>>
    /\ dl_task = <<>>
    /\ dl_targets = {}
    /\ dl_fresh = {}
    /\ dl_pending = {}
    /\ dl_drops = 0

TxIdle ==
    /\ tx_rows = [m \in 1..MaxTx |-> [status |-> "none", planned |-> 0, nhops |-> 0,
                                      asn |-> 0, enriched |-> FALSE]]
    /\ rd_partial = FALSE

NoFetch == [start |-> 0, emitted |-> {}, cursor |-> 0, requests |-> 0, expired |-> FALSE,
            reauths |-> 0, retries |-> 0, outcome |-> "none", silent |-> FALSE]

PiholeIdle ==
    /\ ph_pc = "boot"
    /\ ph_enabled = TRUE
    /\ ph_version = "none"
    /\ ph_sid = FALSE
    /\ ph_cursor = 0
    /\ ph_utcoffset = 0
    /\ ph_restart = FALSE
    /\ ph_selected_on = "none"
    /\ ph_silent = FALSE
    /\ ph_last = NoFetch

\* no row for the ASN yet
AsnsIdle ==
    /\ asns = <<>>
    /\ as_patch = <<>>
    /\ as_twice = FALSE

\* no batch has been processed
BatchIdle == eb_last = [done |-> FALSE, contributed |-> {}, before |-> <<>>]

\* no row for the ASN, no writer has called upsert_asn
WritersIdle ==
    /\ cw_rows = <<>>
    /\ cw_pc = [w \in 1..2 |-> "idle"]
    /\ cw_existing = [w \in 1..2 |-> FALSE]
    /\ cw_patch = [w \in 1..2 |-> <<>>]

\* the addresses measured
TargetIps == {1, 2}

\* no target, nothing observed
TargetsIdle ==
    /\ tg_now = 0
    /\ tg_last_seen = [ip \in TargetIps |-> NULL]
    /\ tg_pending = {}

\* the ASNs a run can select, all with neighbor_count >= min_neighbor_count;
\* a smaller number stands for a larger neighbor_count (the ORDER BY)
ExpAsns == 1..3

\* no ASN has been expanded
ExpandIdle ==
    /\ ex_now = 0
    /\ ex_completed = [a \in ExpAsns |-> NULL]
    /\ ex_known = ExpAsns
    /\ ex_ever = {}
    /\ ex_last = [at |-> 0, selected |-> {}]

\* the rows of the targets table
RmTargets == 1..3

\* no measurement yet, no cycle has run
RemeasureIdle ==
    /\ rm_now = 0
    /\ rm_measured = [ip \in RmTargets |-> NULL]
    /\ rm_enabled = TRUE
    /\ rm_last = [ran |-> FALSE, enabled |-> TRUE, at |-> 0,
                  measured |-> [ip \in RmTargets |-> NULL], enqueued |-> <<>>]

\* the settings keys and the fields the consumers use
WorkerFields == {"rate_limit_per_minute", "max_concurrent_traceroutes", "task_timeout_seconds"}
EnrichmentFields == {"poll_interval_seconds"}
SettingsFields(key) == IF key = "worker_settings" THEN WorkerFields ELSE EnrichmentFields
SettingsKeys == {"worker_settings", "enrichment_settings"}

\* DEFAULT_WORKER_SETTINGS / DEFAULT_ENRICHMENT_SETTINGS (the values are
\* scaled: every default is <<1>>, the other value a setting can take is <<2>>)
DefaultSettings(key) == [f \in SettingsFields(key) |-> <<1>>]

\* nothing stored, the services have not started; CYBERWATCH_ENRICH_INTERVAL
\* is not set, so sleep_seconds is its default
SettingsIdle ==
    /\ st_db = [key \in SettingsKeys |-> [f \in SettingsFields(key) |-> <<>>]]
    /\ st_pc = "boot"
    /\ st_used = DefaultSettings("worker_settings")
    /\ st_sleep = <<1>>
    /\ st_age = [key \in SettingsKeys |-> 0]

\* sanitize_log_data has not been called
SanitizeIdle == sl_call = <<>>

\* the address has no target row; no handler has started
TargetRaceIdle ==
    /\ tr_pc = [h \in 1..2 |-> "idle"]
    /\ tr_existing = [h \in 1..2 |-> FALSE]
    /\ tr_planned = [h \in 1..2 |-> 0]
    /\ tr_hops = [h \in 1..2 |-> 0]
    /\ tr_targets = {}
    /\ tr_stored = {}

\* the Pi-hole has logged nothing, last_seen_ts = 0.0, dns_queries is empty
CollectIdle ==
    /\ dq_log = {}
    /\ dq_cursor = 0
    /\ dq_queries = {}
    /\ dq_db_up = TRUE
    /\ dq_last = <<>>

SvcIdle == TaskIdle /\ QueueIdle /\ DeliveryIdle /\ TxIdle /\ PiholeIdle /\ AsnsIdle /\ BatchIdle /\ WritersIdle /\ TargetsIdle /\ ExpandIdle /\ RemeasureIdle /\ SettingsIdle /\ SanitizeIdle /\ TargetRaceIdle /\ CollectIdle

ExtIdle == LookupIdle /\ LimiterIdle /\ WorkerIdle /\ SvcIdle

Init == PipeInit /\ EdgesIdle /\ BreakerIdle /\ ExtIdle

Next ==
    \/ WorkerInsert
    \/ SaveMeasurement
    \/ EnricherRunOnce
    \/ EnricherUpdateHop
    \/ EnricherMark
    \/ GraphRunOnce
    \/ ProcessMeasurement
    \/ MergeEdge
    \/ MarkGraphBuilt
    \/ GraphFail

Spec == Init /\ [][Next]_vars


\* The graph store is reachable (no GraphFail), and the two polling loops
\* (`while True` in enricher.main_loop, graph_builder.main_loop and
\* run_enrichment.main) keep taking their next step.
EnricherStep == EnricherRunOnce \/ EnricherUpdateHop \/ EnricherMark
GraphStep == GraphRunOnce \/ ProcessMeasurement \/ MergeEdge \/ MarkGraphBuilt

NextReachable ==
    \/ WorkerInsert
    \/ SaveMeasurement
    \/ EnricherRunOnce
    \/ EnricherUpdateHop
    \/ EnricherMark
    \/ GraphRunOnce
    \/ ProcessMeasurement
    \/ MergeEdge
    \/ MarkGraphBuilt

FairSpec == Init /\ [][NextReachable]_vars /\ WF_vars(EnricherStep) /\ WF_vars(GraphStep)

\* ------------------------------------------------- _build_edges on its own
\* The columns of a hop row that _build_edges reads: asn and rtt_ms.
HopRows == [asn : {NULL, 10, 20, 30}, rtt : {NULL, 1, 2}]

HopLists == UNION {[1..n -> HopRows] : n \in 0..MaxLen}

InitEdges ==
    /\ PipeInit
    /\ BreakerIdle
    /\ ExtIdle
    /\ be_pc = "input"
    /\ be_hops \in HopLists
    /\ be_edges = <<>>

ApplyBuildEdges ==
    /\ be_pc = "input"
    /\ be_edges' = BuildEdges(be_hops)
    /\ be_pc' = "done"
    /\ UNCHANGED <<be_hops, pipeVars, cbVars, extVars>>

NextEdges == ApplyBuildEdges

SpecEdges == InitEdges /\ [][NextEdges]_vars

\* ------------------------------------------------------- circuit breaker
\* peeringdb.py line 22: failure_threshold=3
FailureThreshold == 3
\* CircuitBreaker.half_open_max_calls
HalfOpenMaxCalls == 1

\* CircuitBreaker._transition_to_open
TransitionToOpen(b) == [b EXCEPT !.state = "open", !.half_open_calls = 0]
\* CircuitBreaker._transition_to_half_open
TransitionToHalfOpen(b) == [b EXCEPT !.state = "half_open", !.half_open_calls = 0]
\* CircuitBreaker._transition_to_closed
TransitionToClosed(b) == [b EXCEPT !.state = "closed", !.failures = 0, !.half_open_calls = 0]

\* CircuitBreaker.is_open at time t: what it returns and the breaker it leaves
IsOpen(b, t) ==
    CASE b.state = "closed" -> [ret |-> FALSE, cb |-> b]
      [] b.state = "open" ->
            IF t - b.last_failure_time >= RecoveryTime
            THEN [ret |-> FALSE, cb |-> TransitionToHalfOpen(b)]
            ELSE [ret |-> TRUE, cb |-> b]
      [] OTHER ->
            IF b.half_open_calls >= HalfOpenMaxCalls
            THEN [ret |-> TRUE, cb |-> b]
            ELSE [ret |-> FALSE, cb |-> b]

\* (mutant) a success in CLOSED leaves the failure counter as it is
RecordSuccessKeepsCount(b) ==
    CASE b.state = "half_open" -> TransitionToClosed(b)
      [] OTHER -> b

\* CircuitBreaker.record_success
RecordSuccess(b) ==
    CASE b.state = "half_open" -> TransitionToClosed(b)
      [] b.state = "closed" -> [b EXCEPT !.failures = 0]
      [] OTHER -> b

\* (mutant) a CLOSED breaker opens on its first failure
RecordFailureOpensAtOnce(b, t) ==
    LET counted == [b EXCEPT !.failures = @ + 1, !.last_failure_time = t]
    IN CASE b.state = "open" -> counted
         [] OTHER -> TransitionToOpen(counted)

\* CircuitBreaker.record_failure at time t
RecordFailure(b, t) ==
    LET counted == [b EXCEPT !.failures = @ + 1, !.last_failure_time = t]
    IN CASE b.state = "half_open" -> TransitionToOpen(counted)
         [] b.state = "closed" ->
               IF counted.failures >= FailureThreshold THEN TransitionToOpen(counted) ELSE counted
         [] OTHER -> counted

\* history: the state changes seen, extended by the change from -> to
Changes(seen, from, to) == IF from = to THEN seen ELSE seen \cup {<<from, to>>}

\* a caller checks the breaker
CallIsOpen ==
    /\ LET r == IsOpen(cb, now)
       IN /\ cb' = r.cb
          /\ cb_ret' = r.ret
          /\ cb_passed' = IF cb.state = "half_open" /\ ~r.ret /\ cb_passed < MaxPassed
                          THEN cb_passed + 1 ELSE cb_passed
    /\ cb_op' = "is_open"
    /\ cb_trans' = Changes(cb_trans, cb.state, cb'.state)
    /\ UNCHANGED <<now, cb_consec, cb_failed_at, pipeVars, beVars, extVars>>

\* a request that was let through succeeded
CallRecordSuccess ==
    /\ cb' = RecordSuccess(cb)
    /\ cb_op' = "record_success"
    /\ cb_consec' = 0
    /\ cb_passed' = 0
    /\ cb_trans' = Changes(cb_trans, cb.state, cb'.state)
    /\ UNCHANGED <<now, cb_ret, cb_failed_at, pipeVars, beVars, extVars>>

\* a request that was let through failed
CallRecordFailure ==
    /\ cb.failures < MaxFailures
    /\ cb' = RecordFailure(cb, now)
    /\ cb_op' = "record_failure"
    /\ cb_consec' = cb_consec + 1
    /\ cb_failed_at' = now
    /\ cb_passed' = 0
    /\ cb_trans' = Changes(cb_trans, cb.state, cb'.state)
    /\ UNCHANGED <<now, cb_ret, pipeVars, beVars, extVars>>

\* the clock advances
Tick ==
    /\ now < MaxTime
    /\ now' = now + 1
    /\ cb_op' = "none"
    /\ UNCHANGED <<cb, cb_ret, cb_consec, cb_failed_at, cb_passed, cb_trans, pipeVars, beVars, extVars>>

NextCB == CallIsOpen \/ CallRecordSuccess \/ CallRecordFailure \/ Tick

SpecCB == Init /\ [][NextCB]_vars

\* ---------------------------------------------------------- fetch_asn_org
\* what GET /net can be answered: 200 with a record that carries prefixes,
\* 200 with a record without prefixes, 200 with no record, a status other
\* than 200, asyncio.TimeoutError or another exception
Responses == {"ok_pfx", "ok", "notfound", "500", "timeout"}

\* (mutant) an entry expires when its age reaches the TTL
CacheGetExpiresEarly(cache, asn, t) ==
    IF asn \notin DOMAIN cache THEN [hit |-> FALSE, val |-> "none", cache |-> cache]
    ELSE IF t - cache[asn].ts >= CacheTtl
         THEN [hit |-> FALSE, val |-> "none",
               cache |-> [a \in DOMAIN cache \ {asn} |-> cache[a]]]
         ELSE [hit |-> TRUE, val |-> cache[asn].val, cache |-> cache]

\* peeringdb._cache_get at time t: the value found and the cache it leaves
CacheGet(cache, asn, t) ==
    IF asn \notin DOMAIN cache THEN [hit |-> FALSE, val |-> "none", cache |-> cache]
    ELSE IF t - cache[asn].ts > CacheTtl
         THEN [hit |-> FALSE, val |-> "none",
               cache |-> [a \in DOMAIN cache \ {asn} |-> cache[a]]]
         ELSE [hit |-> TRUE, val |-> cache[asn].val, cache |-> cache]

\* peeringdb._cache_set at time t
CacheSet(cache, asn, val, t) ==
    [a \in DOMAIN cache \cup {asn} |-> IF a = asn THEN [ts |-> t, val |-> val] ELSE cache[a]]

\* history: one more call returned, with val, while the server answers 500
Returned(n, val) ==
    IF pdb_mock # "500" THEN n
    ELSE IF val # "empty" THEN 0
    ELSE IF n < FailureThreshold THEN n + 1 ELSE n

\* what the server answers now
Answers == IF pdb_mock = "500" THEN {"500"} ELSE Responses

\* fetch_asn_org(asn) from its first line to the first await that suspends:
\* cache hit, breaker refusal, or GET /net sent
FetchStart(c, asn) ==
    /\ pdb_calls[c].pc = "idle"
    /\ LET g == CacheGet(pdb_cache, asn, now)
           r == IsOpen(cb, now)
           age == IF asn \in DOMAIN pdb_cache THEN now - pdb_cache[asn].ts ELSE NULL
           stored == IF asn \in DOMAIN pdb_cache THEN pdb_cache[asn].val ELSE "none"
           recovering == cb.state = "open" /\ ~r.ret
           seen == [NoCall EXCEPT !.asn = asn, !.age = age, !.stored = stored]
       IN IF g.hit
          THEN /\ pdb_last' = [seen EXCEPT !.ret = g.val, !.hit = TRUE, !.state_after = cb.state]
               /\ pdb_streak' = Returned(pdb_streak, g.val)
               /\ UNCHANGED <<pdb_cache, pdb_calls, cb>>
          ELSE IF r.ret
          THEN /\ pdb_cache' = g.cache
               /\ cb' = r.cb
               /\ pdb_last' = [seen EXCEPT !.state_after = r.cb.state]
               /\ pdb_streak' = Returned(pdb_streak, "empty")
               /\ UNCHANGED pdb_calls
          ELSE /\ pdb_cache' = g.cache
               /\ cb' = r.cb
               /\ pdb_calls' = [pdb_calls EXCEPT ![c] =
                      [IdleCall EXCEPT !.pc = "net", !.asn = asn, !.http = 1, !.age = age,
                                       !.stored = stored, !.recovering = recovering]]
               /\ UNCHANGED <<pdb_last, pdb_streak>>
    /\ UNCHANGED <<pdb_mock, now, cb_op, cb_ret, cb_consec, cb_failed_at, cb_passed, cb_trans>>
    /\ UNCHANGED <<pipeVars, beVars, rlVars, wkVars, svcVars>>

\* the end of fetch_asn_org: _cache_set and return
FetchReturn(c, call, breaker) ==
    /\ pdb_cache' = CacheSet(pdb_cache, call.asn, call.val, now)
    /\ pdb_calls' = [pdb_calls EXCEPT ![c] = IdleCall]
    /\ pdb_last' = [asn |-> call.asn, ret |-> call.val, hit |-> FALSE, http |-> call.http,
                    age |-> call.age, stored |-> call.stored, resp |-> call.resp,
                    recovering |-> call.recovering, counted |-> call.counted,
                    state_after |-> breaker.state]
    /\ pdb_streak' = Returned(pdb_streak, call.val)

\* the answer to GET /net arrives: the breaker is told, and unless prefixes
\* came with it and while the breaker lets it through, GET /netixlan is sent
NetResponse(c) ==
    /\ pdb_calls[c].pc = "net"
    /\ \E resp \in Answers :
       LET told == CASE resp \in {"ok_pfx", "ok"} -> RecordSuccess(cb)
                     [] resp = "notfound" -> cb
                     [] OTHER -> RecordFailure(cb, now)
           call == [pdb_calls[c] EXCEPT !.resp = resp,
                                        !.val = IF resp \in {"ok_pfx", "ok"} THEN "data" ELSE "empty",
                                        !.counted = told.failures = cb.failures + 1]
           r == IsOpen(told, now)
       IN IF resp = "ok_pfx"
          THEN /\ cb' = told
               /\ FetchReturn(c, call, told)
          ELSE IF r.ret
          THEN /\ cb' = r.cb
               /\ FetchReturn(c, call, r.cb)
          ELSE /\ cb' = r.cb
               /\ pdb_calls' = [pdb_calls EXCEPT ![c] = [call EXCEPT !.pc = "netixlan", !.http = 2]]
               /\ UNCHANGED <<pdb_cache, pdb_last, pdb_streak>>
    /\ UNCHANGED <<pdb_mock, now, cb_op, cb_ret, cb_consec, cb_failed_at, cb_passed, cb_trans>>
    /\ UNCHANGED <<pipeVars, beVars, rlVars, wkVars, svcVars>>

\* the answer to GET /netixlan arrives (or fails): only prefixes depend on it
NetixlanResponse(c) ==
    /\ pdb_calls[c].pc = "netixlan"
    /\ FetchReturn(c, pdb_calls[c], cb)
    /\ UNCHANGED <<pdb_mock, cbVars, pipeVars, beVars, rlVars, wkVars, svcVars>>

\* the PeeringDB server starts or stops answering 500 to everything,
\* between calls
SetMock(resp) ==
    /\ \A c \in Callers : pdb_calls[c].pc = "idle"
    /\ resp # pdb_mock
    /\ pdb_mock' = resp
    /\ pdb_streak' = 0
    /\ UNCHANGED <<pdb_cache, pdb_calls, pdb_last, cbVars, pipeVars, beVars, rlVars, wkVars, svcVars>>

\* the clock advances
PdbTick ==
    /\ now < MaxPdbTime
    /\ now' = now + 1
    /\ UNCHANGED <<cb, cb_op, cb_ret, cb_consec, cb_failed_at, cb_passed, cb_trans>>
    /\ UNCHANGED <<lkVars, pipeVars, beVars, rlVars, wkVars, svcVars>>

NextPdb ==
    \/ \E c \in Callers, asn \in Asns : FetchStart(c, asn)
    \/ \E c \in Callers : NetResponse(c)
    \/ \E c \in Callers : NetixlanResponse(c)
    \/ \E resp \in {"any", "500"} : SetMock(resp)
    \/ PdbTick

SpecPdb == Init /\ [][NextPdb]_vars

\* ----------------------------------------------- RateLimiter, lookup_ip_api
\* (mutant) refuses only when more than max_requests tokens are in the window
TryAcquireOneMore(tokens, t) ==
    LET InWindow(x) == x > t - WindowSeconds
        valid == SelectSeq(tokens, InWindow)
    IN IF Len(valid) > MaxRequests
       THEN [ret |-> FALSE, tokens |-> valid]
       ELSE [ret |-> TRUE, tokens |-> Append(valid, t)]

\* RateLimiter.try_acquire at time t: what it returns and the tokens it leaves
TryAcquire(tokens, t) ==
    LET InWindow(x) == x > t - WindowSeconds
        valid == SelectSeq(tokens, InWindow)
    IN IF Len(valid) >= MaxRequests
       THEN [ret |-> FALSE, tokens |-> valid]
       ELSE [ret |-> TRUE, tokens |-> Append(valid, t)]

\* a caller asks the limiter for a token
CallTryAcquire ==
    /\ LET r == TryAcquire(rl_tokens, now)
       IN /\ rl_tokens' = r.tokens
          /\ rl_granted' = IF r.ret THEN Append(rl_granted, now) ELSE rl_granted
          /\ rl_last' = [op |-> "try_acquire", refused |-> ~r.ret, sent |-> FALSE, ret |-> "empty"]
    /\ UNCHANGED <<rl_sent, cbVars, lkVars, pipeVars, beVars, wkVars, svcVars>>

\* lookup_ip_api(ip): cached says whether _cache_get found a live entry, open
\* what _ipapi_breaker.is_open() returned, answer what the request, when one
\* is sent, brings back
LookupIpApi(cached, open, answer) ==
    /\ IF cached
       THEN /\ rl_last' = [op |-> "lookup_ip_api", refused |-> FALSE, sent |-> FALSE, ret |-> "cached"]
            /\ UNCHANGED <<rl_tokens, rl_granted, rl_sent>>
       ELSE IF open
       THEN /\ rl_last' = [op |-> "lookup_ip_api", refused |-> FALSE, sent |-> FALSE, ret |-> "empty"]
            /\ UNCHANGED <<rl_tokens, rl_granted, rl_sent>>
       ELSE LET r == TryAcquire(rl_tokens, now)
            IN /\ rl_tokens' = r.tokens
               /\ rl_granted' = IF r.ret THEN Append(rl_granted, now) ELSE rl_granted
               /\ rl_sent' = IF r.ret THEN Append(rl_sent, now) ELSE rl_sent
               /\ rl_last' = [op |-> "lookup_ip_api", refused |-> ~r.ret, sent |-> r.ret,
                              ret |-> IF r.ret THEN answer ELSE "empty"]
    /\ UNCHANGED <<cbVars, lkVars, pipeVars, beVars, wkVars, svcVars>>

NextRL ==
    \/ CallTryAcquire
    \/ \E cached, open \in BOOLEAN, answer \in {"data", "empty"} : LookupIpApi(cached, open, answer)
    \/ Tick

SpecRL == Init /\ [][NextRL]_vars

\* ------------------------------------------------------------- Worker.run
\* the tokens _apply_rate_limit keeps at time t
LiveTokens(tokens, t) ==
    LET Young(x) == t - x < MinuteSeconds IN SelectSeq(tokens, Young)

\* (mutant) the limiter holds a task back only above rate_limit_per_minute tokens
RateLimitReachedOneMore(tokens) == Len(tokens) > RateLimitPerMinute

\* _apply_rate_limit: len(self.rate_limiter_tokens) >= self.rate_limit_per_minute
RateLimitReached(tokens) == Len(tokens) >= RateLimitPerMinute

\* min(self.rate_limiter_tokens)
Oldest(tokens) == CHOOSE x \in {tokens[i] : i \in DOMAIN tokens} :
                      \A i \in DOMAIN tokens : x <= tokens[i]

\* _apply_rate_limit for the task the loop holds, up to its sleep or, when a
\* token is free, through asyncio.create_task
ApplyRateLimit(task) ==
    LET live == LiveTokens(rate_limiter_tokens, now)
    IN IF RateLimitReached(live)
       THEN /\ rate_limiter_tokens' = live
            /\ wk_pc' = "sleep"
            /\ wk_task' = task
            /\ wk_wake' = Oldest(live) + MinuteSeconds
            /\ wk_held' = wk_held \cup {task}
            /\ UNCHANGED <<wk_handlers, wk_started>>
       ELSE /\ rate_limiter_tokens' = Append(live, now)
            /\ wk_pc' = "dequeue"
            /\ wk_task' = 0
            /\ wk_wake' = 0
            /\ wk_handlers' = [wk_handlers EXCEPT ![task] = [pc |-> "waiting", at |-> 0]]
            /\ wk_started' = Append(wk_started, now)
            /\ UNCHANGED wk_held

\* the loop takes a task from the queue and applies the rate limit
LoopDequeue ==
    /\ wk_pc = "dequeue"
    /\ wk_dequeued < MaxTasks
    /\ wk_dequeued' = wk_dequeued + 1
    /\ ApplyRateLimit(wk_dequeued + 1)
    /\ UNCHANGED <<wk_sem, wk_completed, cbVars, lkVars, rlVars, pipeVars, beVars, svcVars>>

\* asyncio.sleep(wait_time) is over: _apply_rate_limit checks again
LoopWake ==
    /\ wk_pc = "sleep"
    /\ now > wk_wake
    /\ ApplyRateLimit(wk_task)
    /\ UNCHANGED <<wk_dequeued, wk_sem, wk_completed, cbVars, lkVars, rlVars, pipeVars, beVars, svcVars>>

\* (mutant) a handler that timed out keeps its slot
SlotsAfterKeptOnTimeout(sem, outcome) == IF outcome = "timeout" THEN sem ELSE sem + 1

\* async with self.semaphore: the slot is released however the body ends
SlotsAfter(sem, outcome) == sem + 1

\* _handle_task_with_semaphore enters async with self.semaphore
HandlerAcquire(t) ==
    /\ wk_handlers[t].pc = "waiting"
    /\ wk_sem > 0
    /\ wk_sem' = wk_sem - 1
    /\ wk_handlers' = [wk_handlers EXCEPT ![t] = [pc |-> "running", at |-> now]]
    /\ UNCHANGED <<wk_pc, wk_task, wk_wake, wk_dequeued, rate_limiter_tokens, wk_started, wk_completed>>
    /\ UNCHANGED <<wk_held, cbVars, lkVars, rlVars, pipeVars, beVars, svcVars>>

\* handle_task ends before the deadline: the traceroute ran and the
\* measurement was stored ("ok"), or an exception was raised and logged
HandlerEnd(t, outcome) ==
    /\ wk_handlers[t].pc = "running"
    /\ now - wk_handlers[t].at <= TaskTimeout
    /\ wk_handlers' = [wk_handlers EXCEPT ![t] = [pc |-> outcome, at |-> 0]]
    /\ wk_sem' = SlotsAfter(wk_sem, outcome)
    /\ wk_completed' = IF outcome = "ok" THEN Append(wk_completed, now) ELSE wk_completed
    /\ UNCHANGED <<wk_pc, wk_task, wk_wake, wk_dequeued, rate_limiter_tokens, wk_started>>
    /\ UNCHANGED <<wk_held, cbVars, lkVars, rlVars, pipeVars, beVars, svcVars>>

\* asyncio.wait_for cancels handle_task at the deadline
HandlerTimeout(t) ==
    /\ wk_handlers[t].pc = "running"
    /\ now - wk_handlers[t].at >= TaskTimeout
    /\ wk_handlers' = [wk_handlers EXCEPT ![t] = [pc |-> "timeout", at |-> 0]]
    /\ wk_sem' = SlotsAfter(wk_sem, "timeout")
    /\ UNCHANGED <<wk_pc, wk_task, wk_wake, wk_dequeued, rate_limiter_tokens, wk_started, wk_completed>>
    /\ UNCHANGED <<wk_held, cbVars, lkVars, rlVars, pipeVars, beVars, svcVars>>

\* the clock advances; no handler runs past its deadline
WorkerTick ==
    /\ now < MaxWkTime
    /\ \A t \in Tasks : wk_handlers[t].pc = "running" => now - wk_handlers[t].at < TaskTimeout
    /\ now' = now + 1
    /\ UNCHANGED <<cb, cb_op, cb_ret, cb_consec, cb_failed_at, cb_passed, cb_trans>>
    /\ UNCHANGED <<wkVars, lkVars, rlVars, pipeVars, beVars, svcVars>>

LoopStep == LoopDequeue \/ LoopWake
HandlerStep ==
    \E t \in Tasks : HandlerAcquire(t) \/ HandlerTimeout(t) \/ \E outcome \in {"ok", "error"} : HandlerEnd(t, outcome)

NextWorker == LoopStep \/ HandlerStep \/ WorkerTick

SpecWorker == Init /\ [][NextWorker]_vars

\* the event loop runs whatever is ready and time passes
FairWorker == Init /\ [][NextWorker]_vars /\ WF_vars(NextWorker)

\* ------------------------------------- Worker.run with handle_task in steps
\* everything the task model leaves alone
tkRest == <<pipeVars, beVars, lkVars, rlVars, wkVars, quVars, dlVars, txVars, phVars, asVars, ebVars, cwVars, tgVars, exVars, rmVars, stVars, slVars, trVars, dqVars>>
tkClock == <<cb, cb_op, cb_ret, cb_consec, cb_failed_at, cb_passed, cb_trans>>

\* handlers that are inside asyncio.wait_for
InWaitFor(pc) == pc \in {"traceroute", "insert"}

\* while True: the loop takes a task and creates its handler
TaskDequeue ==
    /\ tk_loop = "dequeue"
    /\ tk_dequeued < MaxTasks
    /\ tk_dequeued' = tk_dequeued + 1
    /\ tk_handlers' = [tk_handlers EXCEPT ![tk_dequeued + 1] = [pc |-> "waiting", at |-> 0]]
    /\ UNCHANGED <<tk_loop, tk_sem, tk_procs, tk_rows, tk_pool, tk_queue, cbVars, tkRest>>

\* the handler enters the semaphore and wait_for; handle_task calls
\* run_traceroute, which spawns the child process and awaits communicate()
RunTraceroute(t) ==
    /\ tk_handlers[t].pc = "waiting"
    /\ tk_sem > 0
    /\ tk_sem' = tk_sem - 1
    /\ tk_handlers' = [tk_handlers EXCEPT ![t] = [pc |-> "traceroute", at |-> now]]
    /\ tk_procs' = tk_procs \cup {t}
    /\ UNCHANGED <<tk_loop, tk_dequeued, tk_rows, tk_pool, tk_queue, cbVars, tkRest>>

\* the child process of task t exits; a handler that still awaits it goes on
\* to insert_measurement
ChildExit(t) ==
    /\ t \in tk_procs
    /\ tk_handlers[t].pc = "traceroute" => now - tk_handlers[t].at <= TaskTimeout
    /\ tk_procs' = tk_procs \ {t}
    /\ tk_handlers' = IF tk_handlers[t].pc = "traceroute"
                      THEN [tk_handlers EXCEPT ![t].pc = "insert"]
                      ELSE tk_handlers
    /\ UNCHANGED <<tk_loop, tk_dequeued, tk_sem, tk_rows, tk_pool, tk_queue, cbVars, tkRest>>

\* insert_measurement commits (stored) or raises; on a closed pool
\* pool.acquire() raises.  handle_task logs the exception and returns.
InsertMeasurement(t, stored) ==
    /\ tk_handlers[t].pc = "insert"
    /\ now - tk_handlers[t].at <= TaskTimeout
    /\ LET done == stored /\ tk_pool = "open"
       IN /\ tk_rows' = IF done THEN tk_rows \cup {t} ELSE tk_rows
          /\ tk_handlers' = [tk_handlers EXCEPT ![t] = [pc |-> IF done THEN "ok" ELSE "error", at |-> 0]]
          /\ tk_sem' = SlotsAfter(tk_sem, IF done THEN "ok" ELSE "error")
    /\ UNCHANGED <<tk_loop, tk_dequeued, tk_procs, tk_pool, tk_queue, cbVars, tkRest>>

\* asyncio.wait_for cancels handle_task at the deadline: CancelledError is
\* raised at the await, nothing in _run_subprocess or handle_task catches it
WaitForTimeout(t) ==
    /\ InWaitFor(tk_handlers[t].pc)
    /\ now - tk_handlers[t].at >= TaskTimeout
    /\ tk_handlers' = [tk_handlers EXCEPT ![t] = [pc |-> "timeout", at |-> 0]]
    /\ tk_sem' = SlotsAfter(tk_sem, "timeout")
    /\ UNCHANGED <<tk_loop, tk_dequeued, tk_procs, tk_rows, tk_pool, tk_queue, cbVars, tkRest>>

\* the interrupt ends the loop: control goes to the finally block of run()
Interrupt ==
    /\ tk_loop = "dequeue"
    /\ tk_loop' = "finally"
    /\ UNCHANGED <<tk_dequeued, tk_handlers, tk_sem, tk_procs, tk_rows, tk_pool, tk_queue, cbVars, tkRest>>

\* finally: await pool.close()
PoolClose ==
    /\ tk_loop = "finally"
    /\ tk_loop' = "pool_closed"
    /\ tk_pool' = "closed"
    /\ UNCHANGED <<tk_dequeued, tk_handlers, tk_sem, tk_procs, tk_rows, tk_queue, cbVars, tkRest>>

\* finally: await self.queue.close()
QueueClose ==
    /\ tk_loop = "pool_closed"
    /\ tk_loop' = "stopped"
    /\ tk_queue' = "closed"
    /\ UNCHANGED <<tk_dequeued, tk_handlers, tk_sem, tk_procs, tk_rows, tk_pool, cbVars, tkRest>>

\* asyncio.run cancels every task that is left: when main() is over or, where
\* the interrupt is raised inside the event loop, before the finally block runs
Unfinished(pc) == pc \in {"waiting", "traceroute", "insert"}
CancelAllTasks ==
    /\ tk_loop \in {"finally", "stopped"}
    /\ \E t \in Tasks : Unfinished(tk_handlers[t].pc)
    /\ tk_handlers' = [t \in Tasks |-> IF Unfinished(tk_handlers[t].pc)
                                       THEN [pc |-> "cancelled", at |-> 0]
                                       ELSE tk_handlers[t]]
    /\ tk_sem' = MaxConcurrent
    /\ UNCHANGED <<tk_loop, tk_dequeued, tk_procs, tk_rows, tk_pool, tk_queue, cbVars, tkRest>>

\* the clock advances; no handler runs past its deadline
TaskTick ==
    /\ now < MaxWkTime
    /\ \A t \in Tasks : InWaitFor(tk_handlers[t].pc) => now - tk_handlers[t].at < TaskTimeout
    /\ now' = now + 1
    /\ UNCHANGED <<tkVars, tkClock, tkRest>>

NextTask ==
    \/ TaskDequeue
    \/ \E t \in Tasks : RunTraceroute(t)
    \/ \E t \in Tasks : ChildExit(t)
    \/ \E t \in Tasks, stored \in BOOLEAN : InsertMeasurement(t, stored)
    \/ \E t \in Tasks : WaitForTimeout(t)
    \/ Interrupt
    \/ PoolClose
    \/ QueueClose
    \/ CancelAllTasks
    \/ TaskTick

SpecTask == Init /\ [][NextTask]_vars

\* ------------------------------------------------------------ TargetQueue
quRest == <<pipeVars, beVars, cbVars, lkVars, rlVars, wkVars, tkVars, dlVars, txVars, phVars, asVars, ebVars, cwVars, tgVars, exVars, rmVars, stVars, slVars, trVars, dqVars>>

\* TargetTask: target_ip (an address, here its number), source, domain
\* (Optional) and priority (ge=0)
TargetTasks ==
    {[target_ip |-> 1, source |-> "dns", domain |-> 7, priority |-> 0],
     [target_ip |-> 2, source |-> "api", domain |-> NULL, priority |-> 1],
     [target_ip |-> 1, source |-> "api", domain |-> NULL, priority |-> 0],
     [target_ip |-> 2, source |-> "dns", domain |-> 8, priority |-> 1]}

\* task.model_dump_json(): the address is written as its string form, None as null
ModelDumpJson(task) ==
    <<<<"str", task.target_ip>>, task.source,
      IF task.domain = NULL THEN <<"null">> ELSE <<"str", task.domain>>, task.priority>>

\* TargetTask(**json.loads(payload)): the address string is parsed, null is None
ParseTask(payload) ==
    [target_ip |-> payload[1][2], source |-> payload[2],
     domain |-> IF payload[3] = <<"null">> THEN NULL ELSE payload[3][2],
     priority |-> payload[4]]

\* (mutant) the payload is pushed at the head of the list
LPush(list, payload) == <<payload>> \o list

\* client.rpush(self.queue_key, payload)
RPush(list, payload) == Append(list, payload)

\* enqueue(task)
Enqueue(task) ==
    /\ Len(qu_in) < MaxEnqueued
    /\ qu_list' = RPush(qu_list, ModelDumpJson(task))
    /\ qu_in' = Append(qu_in, task)
    /\ UNCHANGED <<qu_out, qu_empty, quRest>>

\* dequeue(): blpop pops the head; on an empty list it gives up after the
\* timeout and dequeue returns None
Dequeue ==
    /\ Len(qu_out) < MaxEnqueued + 1
    /\ qu_empty' = Append(qu_empty, qu_list = <<>>)
    /\ IF qu_list = <<>>
       THEN /\ qu_out' = Append(qu_out, <<>>)
            /\ UNCHANGED qu_list
       ELSE /\ qu_out' = Append(qu_out, <<ParseTask(Head(qu_list))>>)
            /\ qu_list' = Tail(qu_list)
    /\ UNCHANGED <<qu_in, quRest>>

NextQueue == (\E task \in TargetTasks : Enqueue(task)) \/ Dequeue

SpecQueue == Init /\ [][NextQueue]_vars

\* -------------------------------------------- producers, queue and worker
dlRest == <<pipeVars, beVars, cbVars, lkVars, rlVars, wkVars, tkVars, quVars, txVars, phVars, asVars, ebVars, cwVars, tgVars, exVars, rmVars, stVars, slVars, trVars, dqVars>>


\* queue.enqueue(TargetTask(target_ip=ip, source=source))
Enqueued(ip, source) ==
    /\ Len(dl_queue) < MaxQueued
    /\ dl_queue' = Append(dl_queue, [target_ip |-> ip, source |-> source])
    /\ dl_pending' = dl_pending \cup {ip}

\* POST /targets/enqueue: the task is queued; table targets is not written
EnqueueTarget(ip) ==
    /\ Enqueued(ip, "api")
    /\ UNCHANGED <<dl_task, dl_targets, dl_fresh, dl_drops, dlRest>>

\* the DNS collector and the ASN expander: touch_target, then enqueue
TouchAndEnqueue(ip, source) ==
    /\ dl_targets' = dl_targets \cup {ip}
    /\ Enqueued(ip, source)
    /\ UNCHANGED <<dl_task, dl_fresh, dl_drops, dlRest>>

\* run_remeasurement_cycle for one row of get_targets_for_remeasurement: a
\* target without a measurement younger than interval_hours
RemeasurementCycle(ip) ==
    /\ ip \in dl_targets
    /\ ip \notin dl_fresh
    /\ Enqueued(ip, "remeasurement")
    /\ UNCHANGED <<dl_task, dl_targets, dl_fresh, dl_drops, dlRest>>

\* Worker.run: task = await self.queue.dequeue(); BLPOP removes it from the list
WorkerDequeue ==
    /\ dl_task = <<>>
    /\ dl_queue # <<>>
    /\ dl_task' = <<Head(dl_queue)>>
    /\ dl_queue' = Tail(dl_queue)
    /\ UNCHANGED <<dl_targets, dl_fresh, dl_pending, dl_drops, dlRest>>

\* handle_task: insert_measurement commits (target row created when missing),
\* or the handler raises, times out or the worker dies: logged, task gone
HandleTask(stored) ==
    /\ dl_task # <<>>
    /\ LET ip == dl_task[1].target_ip
       IN IF stored
          THEN /\ dl_targets' = dl_targets \cup {ip}
               /\ dl_fresh' = dl_fresh \cup {ip}
               /\ dl_pending' = dl_pending \ {ip}
               /\ UNCHANGED dl_drops
          ELSE /\ dl_drops < MaxDrops
               /\ dl_drops' = dl_drops + 1
               /\ UNCHANGED <<dl_targets, dl_fresh, dl_pending>>
    /\ dl_task' = <<>>
    /\ UNCHANGED <<dl_queue, dlRest>>

\* time passes: the last measurement of ip gets older than interval_hours
MeasurementAges(ip) ==
    /\ ip \in dl_fresh
    /\ dl_fresh' = dl_fresh \ {ip}
    /\ UNCHANGED <<dl_queue, dl_task, dl_targets, dl_pending, dl_drops, dlRest>>

NextDelivery ==
    \/ \E ip \in TargetIps : EnqueueTarget(ip)
    \/ \E ip \in TargetIps, source \in {"dns", "asn_expansion"} : TouchAndEnqueue(ip, source)
    \/ \E ip \in TargetIps : RemeasurementCycle(ip)
    \/ WorkerDequeue
    \/ \E stored \in BOOLEAN : HandleTask(stored)
    \/ \E ip \in TargetIps : MeasurementAges(ip)

SpecDelivery == Init /\ [][NextDelivery]_vars

\* the worker loop keeps running, the scheduler's cycle comes round again
\* for every target it selects, and time passes
FairDelivery ==
    /\ Init /\ [][NextDelivery]_vars
    /\ WF_vars(WorkerDequeue)
    /\ WF_vars(\E stored \in BOOLEAN : HandleTask(stored))
    /\ \A ip \in TargetIps : SF_vars(RemeasurementCycle(ip)) /\ WF_vars(MeasurementAges(ip))

\* ------------------------------------------- insert_measurement in steps
txRest == <<pipeVars, beVars, cbVars, lkVars, rlVars, wkVars, tkVars, quVars, dlVars, phVars, asVars, ebVars, cwVars, tgVars, exVars, rmVars, stVars, slVars, trVars, dqVars>>

\* (mutant) rows are visible as soon as they are written
VisibleUncommitted(row) == row.status \in {"open", "committed"}

\* what a statement of another connection sees: the rows of committed
\* transactions (async with conn.transaction(), READ COMMITTED)
Visible(row) == row.status = "committed"

\* async with conn.transaction(): INSERT INTO measurements ... RETURNING id
InsertMeasurementRow(m, planned) ==
    /\ tx_rows[m].status = "none"
    /\ \A k \in 1..(m - 1) : tx_rows[k].status # "none"
    /\ tx_rows' = [tx_rows EXCEPT ![m] = [status |-> "open", planned |-> planned, nhops |-> 0,
                                           asn |-> 0, enriched |-> FALSE]]
    /\ UNCHANGED <<rd_partial, txRest>>

\* for hop_number, hop_ip, rtt_ms in hops_list: INSERT INTO hops
InsertHopRow(m) ==
    /\ tx_rows[m].status = "open"
    /\ tx_rows[m].nhops < tx_rows[m].planned
    /\ tx_rows' = [tx_rows EXCEPT ![m].nhops = @ + 1]
    /\ UNCHANGED <<rd_partial, txRest>>

\* the block ends after the last statement: COMMIT
Commit(m) ==
    /\ tx_rows[m].status = "open"
    /\ tx_rows[m].nhops = tx_rows[m].planned
    /\ tx_rows' = [tx_rows EXCEPT ![m].status = "committed"]
    /\ UNCHANGED <<rd_partial, txRest>>

\* a statement raises or the handler is cancelled inside the block: ROLLBACK
Rollback(m) ==
    /\ tx_rows[m].status = "open"
    /\ tx_rows' = [tx_rows EXCEPT ![m] = [@ EXCEPT !.status = "rolled_back", !.nhops = 0]]
    /\ UNCHANGED <<rd_partial, txRest>>

\* the enricher: fetch_unenriched_hops returns a hop of m without ASN and
\* update_hop_enrichment fills it in
EnrichHopRow(m) ==
    /\ Visible(tx_rows[m])
    /\ tx_rows[m].asn < tx_rows[m].nhops
    /\ tx_rows' = [tx_rows EXCEPT ![m].asn = @ + 1]
    /\ rd_partial' = (rd_partial \/ tx_rows[m].nhops < tx_rows[m].planned)
    /\ UNCHANGED txRest

\* the enricher: remaining_unenriched_hops(m) = 0 for a measurement of the
\* batch -> mark_measurement_enriched
MarkEnrichedRow(m) ==
    /\ Visible(tx_rows[m])
    /\ tx_rows[m].asn > 0
    /\ tx_rows[m].asn = tx_rows[m].nhops
    /\ ~tx_rows[m].enriched
    /\ tx_rows' = [tx_rows EXCEPT ![m].enriched = TRUE]
    /\ rd_partial' = (rd_partial \/ tx_rows[m].nhops < tx_rows[m].planned)
    /\ UNCHANGED txRest

\* the projector: fetch_measurements_for_graph, fetch_hops_for_measurement
ReadHopRows(m) ==
    /\ Visible(tx_rows[m])
    /\ tx_rows[m].enriched
    /\ rd_partial' = (rd_partial \/ tx_rows[m].nhops < tx_rows[m].planned)
    /\ UNCHANGED <<tx_rows, txRest>>

NextTx ==
    \E m \in 1..MaxTx :
        \/ \E planned \in 1..MaxHops : InsertMeasurementRow(m, planned)
        \/ InsertHopRow(m)
        \/ Commit(m)
        \/ Rollback(m)
        \/ EnrichHopRow(m)
        \/ MarkEnrichedRow(m)
        \/ ReadHopRows(m)

SpecTx == Init /\ [][NextTx]_vars

\* ------------------------------------- run_collector and PiholeApiSource
phRest == <<pipeVars, beVars, cbVars, lkVars, rlVars, wkVars, tkVars, quVars, dlVars, txVars, asVars, ebVars, cwVars, tgVars, exVars, rmVars, stVars, slVars, trVars, dqVars>>

\* what POST /api/auth can come to: 200 with or without session.sid, 401/403,
\* 404/405, another status, or no response (connection error, timeout)
AuthAnswers == {"200_sid", "200_nosid", "401", "404", "500", "neterr"}
\* what GET /api/queries (v6) or GET api.php (v5) can come to
QueryAnswers == {"200", "401", "500"}

\* _detect_api_version: [version, sid, raise, requests, on]
DetectApiVersion(auth) ==
    IF ph_version # "none"
    THEN [version |-> ph_version, sid |-> ph_sid, raise |-> "none", requests |-> 0, on |-> ph_selected_on]
    ELSE CASE auth = "200_sid" ->
                [version |-> "v6", sid |-> TRUE, raise |-> "none", requests |-> 1, on |-> auth]
           [] auth = "401" ->
                [version |-> "v6", sid |-> FALSE, raise |-> "auth", requests |-> 1, on |-> auth]
           [] auth \in {"200_nosid", "500"} ->
                [version |-> "none", sid |-> FALSE, raise |-> "api", requests |-> 1, on |-> "none"]
           [] OTHER ->   \* 404/405 re-raised as ClientResponseError, or any other
                         \* exception: logged by `except Exception`, then v5
                [version |-> "v5", sid |-> FALSE, raise |-> "none", requests |-> 1, on |-> auth]

\* _authenticate_v6: [sid, raise, requests]
AuthenticateV6(sid, auth) ==
    IF sid
    THEN [sid |-> TRUE, raise |-> "none", requests |-> 0]
    ELSE [sid |-> auth = "200_sid",
          raise |-> CASE auth = "200_sid" -> "none" [] auth = "401" -> "auth" [] OTHER -> "api",
          requests |-> 1]

\* _fetch_v6 up to the payload: [sid, payload, raise, requests, expired, reauths, retries]
FetchV6(sid, auth, q1, reauth, q2) ==
    LET a == AuthenticateV6(sid, auth)
        r == AuthenticateV6(FALSE, reauth)
        Result(s, p, e, n, x, ra, rt) ==
            [sid |-> s, payload |-> p, raise |-> e, requests |-> n, expired |-> x,
             reauths |-> ra, retries |-> rt]
    IN IF a.raise # "none" THEN Result(a.sid, FALSE, a.raise, a.requests, FALSE, 0, 0)
       ELSE IF q1 = "200" THEN Result(TRUE, TRUE, "none", a.requests + 1, FALSE, 0, 0)
       ELSE IF q1 # "401" THEN Result(TRUE, FALSE, "api", a.requests + 1, FALSE, 0, 0)
       ELSE IF r.raise # "none" THEN Result(FALSE, FALSE, r.raise, a.requests + 2, TRUE, 1, 0)
       ELSE Result(TRUE, q2 = "200", IF q2 = "200" THEN "none" ELSE "api",
                   a.requests + 3, TRUE, 1, 1)

\* _fetch_v5 up to the payload: every failure is logged and gives []
FetchV5(q1) ==
    [sid |-> FALSE, payload |-> q1 = "200", raise |-> "none", requests |-> 1,
     expired |-> FALSE, reauths |-> 0, retries |-> 0]

\* the rows of the payload that pass `if ts_raw <= self.last_seen_ts: continue`
Accepted(rows, cursor) == {t \in rows : t > cursor}

\* max(q.timestamp.timestamp() for q in queries), q.timestamp being
\* datetime.utcfromtimestamp(ts_raw): a naive datetime that holds UTC and that
\* timestamp() reads as local time
NewCursor(queries, utcoffset) ==
    (CHOOSE t \in queries : \A u \in queries : u <= t) - utcoffset

\* run_collector: source = await build_source(...), in the process's time zone
BuildSource(utcoffset) ==
    /\ ph_pc = "boot"
    /\ ph_pc' = "run"
    /\ ph_utcoffset' = utcoffset
    /\ UNCHANGED <<ph_enabled, ph_version, ph_sid, ph_cursor, ph_restart, ph_selected_on,
                   ph_silent, ph_last, cbVars, phRest>>

\* one turn of the loop of run_collector with the collector enabled:
\* process_cycle -> source.fetch_new(); exceptions are logged, then the loop sleeps
ProcessCycle(auth, q1, reauth, q2, rows) ==
    /\ ph_pc = "run"
    /\ ph_enabled
    /\ LET d == DetectApiVersion(auth)
           f == IF d.raise # "none"
                THEN [sid |-> d.sid, payload |-> FALSE, raise |-> d.raise, requests |-> 0,
                      expired |-> FALSE, reauths |-> 0, retries |-> 0]
                ELSE IF d.version = "v6" THEN FetchV6(d.sid, auth, q1, reauth, q2)
                ELSE FetchV5(q1)
           queries == IF f.payload THEN Accepted(rows, ph_cursor) ELSE {}
           cursor == IF queries # {} THEN NewCursor(queries, ph_utcoffset) ELSE ph_cursor
       IN /\ ph_version' = d.version
          /\ ph_selected_on' = d.on
          /\ ph_sid' = f.sid
          /\ ph_cursor' = cursor
          /\ ph_silent' = (ph_silent \/ f.raise = "auth")
          /\ ph_last' = [start |-> ph_cursor, emitted |-> queries, cursor |-> cursor,
                         requests |-> d.requests + f.requests, expired |-> f.expired,
                         reauths |-> f.reauths, retries |-> f.retries,
                         outcome |-> IF f.raise = "none" THEN "ok" ELSE f.raise,
                         silent |-> ph_silent]
    /\ UNCHANGED <<ph_pc, ph_enabled, ph_utcoffset, ph_restart, cbVars, phRest>>

\* the settings route saves the pihole settings; the loop reads `enabled`
\* from them at the start of every turn
SavePiholeSettings(enabled) ==
    /\ ph_enabled' = enabled
    /\ ph_silent' = FALSE
    /\ UNCHANGED <<ph_pc, ph_version, ph_sid, ph_cursor, ph_utcoffset, ph_restart,
                   ph_selected_on, ph_last, cbVars, phRest>>

\* request_collector_restart: restart_requested_at = now
RequestCollectorRestart ==
    /\ ~ph_restart
    /\ ph_restart' = TRUE
    /\ UNCHANGED <<ph_pc, ph_enabled, ph_version, ph_sid, ph_cursor, ph_utcoffset,
                   ph_selected_on, ph_silent, ph_last, cbVars, phRest>>

\* every answer the Pi-hole can give to the requests of one turn; an answer
\* to a request the turn does not send is not enumerated
CollectorTurn ==
    LET authNeeded == ph_version = "none" \/ (ph_version = "v6" /\ ~ph_sid)
    IN \E auth \in (IF authNeeded THEN AuthAnswers ELSE {"200_sid"}) :
       \E q1 \in QueryAnswers :
       \E reauth \in (IF q1 = "401" THEN {"200_sid", "401", "500"} ELSE {"200_sid"}) :
       \E q2 \in (IF q1 = "401" /\ reauth = "200_sid" THEN {"200", "500"} ELSE {"200"}) :
       \E rows \in (IF q1 = "200" \/ (q1 = "401" /\ reauth = "200_sid" /\ q2 = "200")
                    THEN SUBSET (1..MaxTs) ELSE {{}}) :
           ProcessCycle(auth, q1, reauth, q2, rows)

NextPihole ==
    \/ \E utcoffset \in {-MaxUtcOffset, 0, MaxUtcOffset} : BuildSource(utcoffset)
    \/ CollectorTurn
    \/ \E enabled \in BOOLEAN : SavePiholeSettings(enabled)
    \/ RequestCollectorRestart

SpecPihole == Init /\ [][NextPihole]_vars

\* the collector process starts and its loop keeps turning
FairPihole ==
    /\ Init /\ [][NextPihole]_vars
    /\ WF_vars(\E utcoffset \in {-MaxUtcOffset, 0, MaxUtcOffset} : BuildSource(utcoffset))
    /\ WF_vars(CollectorTurn)

\* ================================================================ asns table
\* upsert_asn (db/pg.py): SELECT the row of the ASN, then UPDATE the columns
\* whose argument is not None, or INSERT all the arguments.  One ASN is
\* modelled (every statement is keyed by asn = $1); an Optional value is <<>>
\* (None / NULL) or <<v>>.  last_seen and updated_at are timestamps and are
\* not modelled.

asRest == <<pipeVars, beVars, cbVars, lkVars, rlVars, wkVars, tkVars, quVars, dlVars, txVars, phVars, ebVars, cwVars, tgVars, exVars, rmVars, stVars, slVars, trVars, dqVars>>

\* the columns upsert_asn writes, in the order of its parameters
AsnFields == {"org_name", "country_code", "source", "peeringdb_id", "facility_count",
              "peering_policy", "traffic_levels", "irr_as_set"}

\* source: "cymru" is the default of the parameter, the enricher passes
\* "peeringdb" when PeeringDB knows the organisation; None can be passed too
AsnSources == {<<>>, <<"cymru">>, <<"peeringdb">>}

\* the arguments of a call: every field None or a value
AsnPatches ==
    [org_name : {<<>>, <<"org">>}, country_code : {<<>>, <<"US">>}, source : AsnSources,
     peeringdb_id : {<<>>, <<1>>}, facility_count : {<<>>, <<1>>},
     peering_policy : {<<>>, <<"Open">>}, traffic_levels : {<<>>, <<"1-5Gbps">>},
     irr_as_set : {<<>>, <<"AS-SET">>}]

\* (mutant) the UPDATE sets every column to its argument
SetAlways(old, new) == new

\* if <field> is not None: updates.append("<field> = $n")
SetIfProvided(old, new) == IF new # <<>> THEN new ELSE old

\* the row upsert_asn leaves: UPDATE of the provided columns if the row
\* exists, INSERT of all the arguments otherwise
UpsertedRow(existing, patch) ==
    IF existing # <<>>
    THEN <<[f \in AsnFields |-> SetIfProvided(existing[1][f], patch[f])]>>
    ELSE <<[f \in AsnFields |-> patch[f]]>>

UpsertAsn(patch) ==
    /\ asns' = UpsertedRow(asns, patch)
    /\ as_patch' = <<patch>>
    /\ as_twice' = (as_patch = <<patch>>)
    /\ UNCHANGED <<cbVars, asRest>>

NextAsns == \E patch \in AsnPatches : UpsertAsn(patch)

SpecAsns == Init /\ [][NextAsns]_vars

\* ================================================================ ASN patch of a batch
\* process_batch (enrichment/enricher.py): the hops of a batch that resolve to
\* the ASN, each with what the three lookups returned, are merged into one
\* patch per ASN, and the patch is given to upsert_asn.

ebRest == <<pipeVars, beVars, cbVars, lkVars, rlVars, wkVars, tkVars, quVars, dlVars, txVars, phVars, cwVars, tgVars, exVars, rmVars, stVars, slVars, trVars, dqVars>>

\* hops of one ASN in a batch
MaxHopsPerAsn == 2

\* what enrich_hop returns for a hop of the ASN: the organisation Team Cymru
\* gave (Optional); external_info: None, an ExternalAsnInfo without
\* organisation, or one with it; asn_org: None (fetch_asn_org raised), an
\* AsnOrg without data (a model instance, so truthy), or one with data
HopOutcomes == [cymru : {<<>>, <<"cymru org">>}, external : {"none", "empty", "org"},
                asn_org : {"none", "empty", "full"}]

HopBatches == UNION {[1..n -> HopOutcomes] : n \in 1..MaxHopsPerAsn}

\* org_name = asn_org.org_name if asn_org and asn_org.org_name
\*            else external_info.org_name if external_info and external_info.org_name
\*            else asn_info.org_name          (country is merged the same way)
MergedOrg(o) ==
    IF o.asn_org = "full" THEN <<"peeringdb org">>
    ELSE IF o.external = "org" THEN <<"external org">>
    ELSE o.cymru

\* asns_to_upsert[asn] = {...} for the first hop of the ASN
FirstPatch(o) ==
    [org_name |-> MergedOrg(o),
     country_code |-> IF MergedOrg(o) # <<>> THEN <<"US">> ELSE <<>>,
     source |-> <<"cymru">>, peeringdb_id |-> <<>>, facility_count |-> <<0>>,
     peering_policy |-> <<>>, traffic_levels |-> <<>>, irr_as_set |-> <<>>]

\* if asn_org: asns_to_upsert[asn].update({"source": "peeringdb", ...})
WithPeeringdb(patch, o) ==
    IF o.asn_org = "none" THEN patch
    ELSE [patch EXCEPT !.source = <<"peeringdb">>,
                       !.peeringdb_id = IF o.asn_org = "full" THEN <<1>> ELSE <<>>,
                       !.facility_count = IF o.asn_org = "full" THEN <<1>> ELSE <<0>>,
                       !.peering_policy = IF o.asn_org = "full" THEN <<"Open">> ELSE <<>>,
                       !.traffic_levels = IF o.asn_org = "full" THEN <<"1-5Gbps">> ELSE <<>>,
                       !.irr_as_set = IF o.asn_org = "full" THEN <<"AS-SET">> ELSE <<>>]

RECURSIVE MergeHops(_, _, _)
MergeHops(patch, batch, i) ==
    IF i > Len(batch) THEN patch
    ELSE MergeHops(WithPeeringdb(patch, batch[i]), batch, i + 1)

\* the patch process_batch builds for the ASN
AsnPatchOf(batch) == MergeHops(FirstPatch(batch[1]), batch, 1)

\* the sources whose data is in the patch: its organisation comes from the
\* first hop's merge, its PeeringDB fields from the last hop with an asn_org
Contributed(batch) ==
    LET patch == AsnPatchOf(batch)
        org == patch.org_name
    IN  {source \in {"cymru", "external", "peeringdb"} :
            \/ source = "cymru" /\ org = <<"cymru org">>
            \/ source = "external" /\ org = <<"external org">>
            \/ source = "peeringdb" /\ (org = <<"peeringdb org">> \/ patch.peeringdb_id # <<>>)}

\* cymru < external < peeringdb
SourceRank(source) ==
    IF source = <<"peeringdb">> THEN 3
    ELSE IF source = <<"external">> THEN 2
    ELSE IF source = <<"cymru">> THEN 1
    ELSE 0

\* the best source among those that contributed (Team Cymru gave the ASN itself)
BestSource(contributed) ==
    IF "peeringdb" \in contributed THEN <<"peeringdb">>
    ELSE IF "external" \in contributed THEN <<"external">>
    ELSE <<"cymru">>

\* process_batch for the hops of the ASN: build the patch, upsert it
ProcessBatch(batch) ==
    /\ asns' = UpsertedRow(asns, AsnPatchOf(batch))
    /\ as_patch' = <<AsnPatchOf(batch)>>
    /\ as_twice' = (as_patch = <<AsnPatchOf(batch)>>)
    /\ eb_last' = [done |-> TRUE, contributed |-> Contributed(batch), before |-> asns]
    /\ UNCHANGED <<cbVars, ebRest>>

NextBatch == \E batch \in HopBatches : ProcessBatch(batch)

SpecBatch == Init /\ [][NextBatch]_vars

\* ================================================================ two writers of one ASN
\* upsert_asn is two statements on a pooled connection with no transaction
\* and no lock: the SELECT, then the UPDATE or the INSERT.  Two callers (the
\* enricher and another process or task) interleave between them.

cwRest == <<pipeVars, beVars, cbVars, lkVars, rlVars, wkVars, tkVars, quVars, dlVars, txVars, phVars, asVars, ebVars, tgVars, exVars, rmVars, stVars, slVars, trVars, dqVars>>

Writers == 1..2

\* the arguments the writers pass: organisation and country together, the
\* PeeringDB fields together, any source
WriterPatches ==
    {p \in AsnPatches :
        /\ (p.org_name = <<>>) = (p.country_code = <<>>)
        /\ \A f \in {"facility_count", "peering_policy", "traffic_levels", "irr_as_set"} :
              (p[f] = <<>>) = (p.peeringdb_id = <<>>)}

\* asn is the key of the asns table: an INSERT of a second row for the ASN
\* raises UniqueViolationError
AsnIsKey == TRUE

\* existing = await conn.fetchrow("SELECT * FROM asns WHERE asn = $1", asn)
SelectAsn(w, patch) ==
    /\ cw_pc[w] = "idle"
    /\ cw_pc' = [cw_pc EXCEPT ![w] = "selected"]
    /\ cw_existing' = [cw_existing EXCEPT ![w] = (cw_rows # <<>>)]
    /\ cw_patch' = [cw_patch EXCEPT ![w] = <<patch>>]
    /\ UNCHANGED <<cw_rows, cbVars, cwRest>>

\* if existing: UPDATE asns SET <the provided columns> WHERE asn = $1
UpdateAsn(w) ==
    /\ cw_pc[w] = "selected"
    /\ cw_existing[w]
    /\ cw_rows' = [i \in 1..Len(cw_rows) |-> UpsertedRow(<<cw_rows[i]>>, cw_patch[w][1])[1]]
    /\ cw_pc' = [cw_pc EXCEPT ![w] = "done"]
    /\ UNCHANGED <<cw_existing, cw_patch, cbVars, cwRest>>

\* else: INSERT INTO asns (...) VALUES (...)
InsertAsn(w) ==
    /\ cw_pc[w] = "selected"
    /\ ~cw_existing[w]
    /\ IF AsnIsKey /\ cw_rows # <<>>
       THEN /\ cw_pc' = [cw_pc EXCEPT ![w] = "failed"]
            /\ UNCHANGED cw_rows
       ELSE /\ cw_pc' = [cw_pc EXCEPT ![w] = "done"]
            /\ cw_rows' = Append(cw_rows, UpsertedRow(<<>>, cw_patch[w][1])[1])
    /\ UNCHANGED <<cw_existing, cw_patch, cbVars, cwRest>>

NextWriters ==
    \E w \in Writers :
        \/ \E patch \in WriterPatches : SelectAsn(w, patch)
        \/ UpdateAsn(w)
        \/ InsertAsn(w)

SpecWriters == Init /\ [][NextWriters]_vars

\* ================================================================ targets.last_seen
\* The writers of targets.last_seen: the collector's touch (pg_dns.touch_target,
\* seen_at = the query's time), insert_measurement (completed_at or
\* started_at), and the touches of the remeasurement cycle and of the ASN
\* expansion (pg.touch_target without seen_at: utcnow()).  The collector and
\* the worker write an event's time some time after the event.

tgRest == <<pipeVars, beVars, cbVars, lkVars, rlVars, wkVars, tkVars, quVars, dlVars, txVars, phVars, asVars, ebVars, cwVars, exVars, rmVars, stVars, slVars, trVars, dqVars>>

MaxNow == 3
MaxPending == 2

ClockTick ==
    /\ tg_now < MaxNow
    /\ tg_now' = tg_now + 1
    /\ UNCHANGED <<tg_last_seen, tg_pending, cbVars, tgRest>>

\* a DNS query for a name of ip is logged by the resolver, or a traceroute to
\* ip ends: the event carries the current time
Observe(ip, by) ==
    /\ Cardinality(tg_pending) < MaxPending
    /\ tg_pending' = tg_pending \cup {[ip |-> ip, at |-> tg_now, by |-> by]}
    /\ UNCHANGED <<tg_now, tg_last_seen, cbVars, tgRest>>

\* SET last_seen = COALESCE(EXCLUDED.last_seen, targets.last_seen), with a
\* seen_at that is never null; UPDATE targets SET last_seen = $1
SetLastSeen(old, seen_at) == seen_at

\* process_cycle: touch_target(pool, ip, source="dns", seen_at=target.queried_at)
DnsTouch(e) ==
    /\ e \in tg_pending
    /\ e.by = "dns"
    /\ tg_last_seen' = [tg_last_seen EXCEPT ![e.ip] = SetLastSeen(@, e.at)]
    /\ tg_pending' = tg_pending \ {e}
    /\ UNCHANGED <<tg_now, cbVars, tgRest>>

\* insert_measurement: _get_or_create_target, then
\* UPDATE targets SET last_seen = completed_at or started_at
MeasurementTouch(e) ==
    /\ e \in tg_pending
    /\ e.by = "measurement"
    /\ tg_last_seen' = [tg_last_seen EXCEPT ![e.ip] = SetLastSeen(@, e.at)]
    /\ tg_pending' = tg_pending \ {e}
    /\ UNCHANGED <<tg_now, cbVars, tgRest>>

\* run_remeasurement_cycle / expand_asn: pg.touch_target(pool, ip, source=...),
\* seen_at or datetime.utcnow()
TouchNow(ip) ==
    /\ tg_last_seen' = [tg_last_seen EXCEPT ![ip] = SetLastSeen(@, tg_now)]
    /\ UNCHANGED <<tg_now, tg_pending, cbVars, tgRest>>

NextTargets ==
    \/ ClockTick
    \/ \E ip \in TargetIps, by \in {"dns", "measurement"} : Observe(ip, by)
    \/ \E e \in tg_pending : DnsTouch(e)
    \/ \E e \in tg_pending : MeasurementTouch(e)
    \/ \E ip \in TargetIps : TouchNow(ip)

SpecTargets == Init /\ [][NextTargets]_vars

\* ================================================================ ASN expansion
\* asn_expander.run_once: get_interesting_asns, then expand_asn for each.

exRest == <<pipeVars, beVars, cbVars, lkVars, rlVars, wkVars, tkVars, quVars, dlVars, txVars, phVars, asVars, ebVars, cwVars, tgVars, rmVars, stVars, slVars, trVars, dqVars>>

MaxAsnsPerRun == 1
SevenDays == 2
MaxExpNow == 4

\* WHERE enrichment_completed_at IS NULL
\*    OR enrichment_completed_at < NOW() - INTERVAL '7 days'
Eligible(a) == ex_completed[a] = NULL \/ ex_completed[a] < ex_now - SevenDays

\* ORDER BY neighbor_count DESC, last_seen DESC LIMIT max_asns_per_run
GetInterestingAsns ==
    {a \in ExpAsns : Eligible(a) /\
        Cardinality({b \in ExpAsns : Eligible(b) /\ b < a}) < MaxAsnsPerRun}

\* expand_asn reaches mark_asn_enrichment_completed: not when
\* get_prefixes_for_asn returned nothing (`if not prefixes: return 0`)
Marked(a) == a \in ex_known

\* run_once: expand_asn for each selected ASN
ExpandRunOnce ==
    LET asns_selected == GetInterestingAsns IN
    /\ ex_completed' = [a \in ExpAsns |->
                           IF a \in asns_selected /\ Marked(a)
                           THEN ex_now ELSE ex_completed[a]]
    /\ ex_ever' = ex_ever \cup asns_selected
    /\ ex_last' = [at |-> ex_now, selected |-> asns_selected]
    /\ UNCHANGED <<ex_now, ex_known, cbVars, exRest>>

\* PeeringDB gains or loses the network records of an ASN (or the lookup
\* starts or stops failing for it)
PrefixesChange(a) ==
    /\ ex_known' = IF a \in ex_known THEN ex_known \ {a} ELSE ex_known \cup {a}
    /\ UNCHANGED <<ex_now, ex_completed, ex_ever, ex_last, cbVars, exRest>>

ExpandTick ==
    /\ ex_now < MaxExpNow
    /\ ex_now' = ex_now + 1
    /\ UNCHANGED <<ex_completed, ex_known, ex_ever, ex_last, cbVars, exRest>>

NextExpand ==
    \/ ExpandRunOnce
    \/ \E a \in ExpAsns : PrefixesChange(a)
    \/ ExpandTick

SpecExpand == Init /\ [][NextExpand]_vars

\* runs keep coming and time passes
FairExpand == SpecExpand /\ WF_vars(ExpandTick) /\ WF_vars(ExpandRunOnce)

\* ================================================================ remeasurement cycle
\* scheduler/remeasure.py: run_remeasurement_cycle reads the stale targets with
\* get_targets_for_remeasurement, shuffles them and enqueues each.

rmRest == <<pipeVars, beVars, cbVars, lkVars, rlVars, wkVars, tkVars, quVars, dlVars, txVars, phVars, asVars, ebVars, cwVars, tgVars, exVars, stVars, slVars, trVars, dqVars>>

TargetsPerRun == 2
IntervalHours == 1
MaxRmNow == 3

\* (mutant) the HAVING clause is missing
StaleAlways(last_measurement) == TRUE

\* HAVING MAX(m.completed_at) IS NULL
\*     OR MAX(m.completed_at) < NOW() - ($1 || ' hours')::INTERVAL
Stale(last_measurement) ==
    last_measurement = NULL \/ last_measurement < rm_now - IntervalHours

\* ORDER BY MAX(m.completed_at) ASC NULLS FIRST LIMIT $2: the possible results
\* (rows with equal times come in any order)
GetTargetsForRemeasurement ==
    LET stale == {ip \in RmTargets : Stale(rm_measured[ip])}
        n == IF Cardinality(stale) < TargetsPerRun THEN Cardinality(stale) ELSE TargetsPerRun
        \* NULLS FIRST: NULL = -1 sorts before every time
    IN  {rows \in SUBSET stale :
            /\ Cardinality(rows) = n
            /\ \A a \in rows, b \in stale \ rows : rm_measured[a] <= rm_measured[b]}

\* the orders random.shuffle can give to the rows that were enqueued
RECURSIVE Shuffles(_)
Shuffles(rows) ==
    IF rows = {} THEN {<<>>}
    ELSE UNION {{<<ip>> \o rest : rest \in Shuffles(rows \ {ip})} : ip \in rows}

\* run_remeasurement_cycle (called by main_loop with the settings it loaded):
\* failed are the targets whose touch_target or enqueue raised
RunRemeasurementCycle(rows, failed, shuffled) ==
    /\ IF rm_enabled
       THEN /\ rows \in GetTargetsForRemeasurement
            /\ failed \subseteq rows
            /\ shuffled \in Shuffles(rows \ failed)
       ELSE rows = {} /\ failed = {} /\ shuffled = <<>>
    /\ rm_last' = [ran |-> TRUE, enabled |-> rm_enabled, at |-> rm_now, measured |-> rm_measured,
                   enqueued |-> [i \in 1..Len(shuffled) |->
                                    [target_ip |-> shuffled[i], source |-> "remeasurement"]]]
    /\ UNCHANGED <<rm_now, rm_measured, rm_enabled, cbVars, rmRest>>

\* a measurement of the target is stored: completed_at = datetime.utcnow()
MeasurementCompleted(ip) ==
    /\ rm_measured' = [rm_measured EXCEPT ![ip] = rm_now]
    /\ UNCHANGED <<rm_now, rm_enabled, rm_last, cbVars, rmRest>>

\* save_remeasurement_settings(enabled=...)
SaveRemeasurementSettings(enabled) ==
    /\ rm_enabled' = enabled
    /\ UNCHANGED <<rm_now, rm_measured, rm_last, cbVars, rmRest>>

RemeasureTick ==
    /\ rm_now < MaxRmNow
    /\ rm_now' = rm_now + 1
    /\ UNCHANGED <<rm_measured, rm_enabled, rm_last, cbVars, rmRest>>

NextRemeasure ==
    \/ \E rows \in SUBSET RmTargets, failed \in SUBSET RmTargets :
          \E shuffled \in Shuffles(rows \ failed) : RunRemeasurementCycle(rows, failed, shuffled)
    \/ \E ip \in RmTargets : MeasurementCompleted(ip)
    \/ \E enabled \in BOOLEAN : SaveRemeasurementSettings(enabled)
    \/ RemeasureTick

SpecRemeasure == Init /\ [][NextRemeasure]_vars

\* ================================================================ settings reload
\* The worker loads worker_settings in Worker.run before its loop; the
\* enrichment scheduler takes its interval from the environment.

stRest == <<pipeVars, beVars, cbVars, lkVars, rlVars, wkVars, tkVars, quVars, dlVars, txVars, phVars, asVars, ebVars, cwVars, tgVars, exVars, rmVars, slVars, trVars, dqVars>>

\* {**DEFAULT_..._SETTINGS, **settings}: a stored field wins, a missing one
\* takes the default
SettingsWithDefaults(key) ==
    [f \in SettingsFields(key) |->
        IF st_db[key][f] # <<>> THEN st_db[key][f] ELSE DefaultSettings(key)[f]]

\* set_setting(pool, key, value): the API's settings routes
SaveSettings(key, value) ==
    /\ st_db' = [st_db EXCEPT ![key] = value]
    /\ st_age' = [st_age EXCEPT ![key] = 0]
    /\ UNCHANGED <<st_pc, st_used, st_sleep, cbVars, stRest>>

\* Worker.run, before the loop: settings = await get_worker_settings_with_defaults(pool)
WorkerLoadSettings ==
    /\ st_pc = "boot"
    /\ st_pc' = "run"
    /\ st_used' = SettingsWithDefaults("worker_settings")
    /\ UNCHANGED <<st_db, st_sleep, st_age, cbVars, stRest>>

\* Worker.run, one iteration of while True: dequeue, _apply_rate_limit,
\* create_task; the settings are not read
WorkerLoopIteration ==
    /\ st_pc = "run"
    /\ st_age' = [st_age EXCEPT !["worker_settings"] = 1]
    /\ UNCHANGED <<st_db, st_pc, st_used, st_sleep, cbVars, stRest>>

\* run_enrichment.main, one iteration of while True: run_once of the enricher
\* and of the graph builder, asyncio.sleep(sleep_seconds); no settings are read
EnrichmentLoopIteration ==
    /\ st_age' = [st_age EXCEPT !["enrichment_settings"] = 1]
    /\ UNCHANGED <<st_db, st_pc, st_used, st_sleep, cbVars, stRest>>

NextSettings ==
    \/ \E key \in SettingsKeys :
          \E value \in [SettingsFields(key) -> {<<>>, <<1>>, <<2>>}] : SaveSettings(key, value)
    \/ WorkerLoadSettings
    \/ WorkerLoopIteration
    \/ EnrichmentLoopIteration

SpecSettings == Init /\ [][NextSettings]_vars

\* ================================================================ sanitize_log_data
\* logging_config.sanitize_log_data.  A key is a sequence of characters; a
\* value is a string [kind |-> "str"], a dictionary [kind |-> "dict", items]
\* or a list [kind |-> "list", items].

slRest == <<pipeVars, beVars, cbVars, lkVars, rlVars, wkVars, tkVars, quVars, dlVars, txVars, phVars, asVars, ebVars, cwVars, tgVars, exVars, rmVars, stVars, trVars, dqVars>>

\* the default sensitive_keys that the keys below can contain
SensitiveKeys == {<<"p", "w", "d">>, <<"a", "u", "t", "h">>}

\* keys of the top dictionary and of the dictionaries nested in it
TopKeys == {<<"P", "W", "D">>, <<"h", "o", "p", "s">>}
InnerKeys == {<<"x", "_", "p", "w", "d">>, <<"i", "d">>}

\* str.lower() on the characters used
LowerChar(c) ==
    IF c = "P" THEN "p" ELSE IF c = "W" THEN "w" ELSE IF c = "D" THEN "d" ELSE c

Lower(key) == [i \in 1..Len(key) |-> LowerChar(key[i])]

\* sensitive in key.lower()
Contains(sub, s) ==
    \E i \in 0..(Len(s) - Len(sub)) : \A j \in 1..Len(sub) : s[i + j] = sub[j]

\* any(sensitive in key.lower() for sensitive in sensitive_keys)
IsSensitive(key) == \E sensitive \in SensitiveKeys : Contains(sensitive, Lower(key))

Redacted == [kind |-> "str", v |-> "***REDACTED***"]

\* the inputs: strings, dictionaries of strings, lists of up to two strings
\* or dictionaries, and top dictionaries of all of these
Strings == {[kind |-> "str", v |-> "text"]}
DictOver(keys, values) ==
    UNION {{[kind |-> "dict", items |-> f] : f \in [ks -> values]} : ks \in SUBSET keys}
InnerDicts == DictOver(InnerKeys, Strings)
MaxListLen == 2
Lists == UNION {{[kind |-> "list", items |-> s] : s \in [1..n -> Strings \cup InnerDicts]} :
                   n \in 0..MaxListLen}
LogDicts == DictOver(TopKeys, Strings \cup InnerDicts \cup Lists)

RECURSIVE SanitizeLogData(_)
\* the value stored under key; <<>> when computing it raises (item.items() on
\* a list item that is not a dictionary: AttributeError)
SanitizedValue(key, value) ==
    IF IsSensitive(key) THEN <<Redacted>>
    ELSE IF value.kind = "dict" THEN SanitizeLogData(value)
    ELSE IF value.kind = "list" /\ value.items # <<>> /\ value.items[1].kind = "dict"
    THEN LET rs == [i \in 1..Len(value.items) |->
                       IF value.items[i].kind = "dict"
                       THEN SanitizeLogData(value.items[i]) ELSE <<>>]
         IN  IF \E i \in 1..Len(rs) : rs[i] = <<>> THEN <<>>
             ELSE <<[kind |-> "list", items |-> [i \in 1..Len(rs) |-> rs[i][1]]]>>
    ELSE <<value>>

\* sanitize_log_data(data): <<the new dictionary>>, or <<>> when it raises
SanitizeLogData(data) ==
    LET rs == [key \in DOMAIN data.items |-> SanitizedValue(key, data.items[key])]
    IN  IF \E key \in DOMAIN rs : rs[key] = <<>> THEN <<>>
        ELSE <<[kind |-> "dict", items |-> [key \in DOMAIN rs |-> rs[key][1]]]>>

CallSanitize(data) ==
    /\ sl_call = <<>>
    /\ sl_call' = <<[data |-> data, result |-> SanitizeLogData(data)]>>
    /\ UNCHANGED <<cbVars, slRest>>

NextSanitize == \E data \in LogDicts : CallSanitize(data)

SpecSanitize == Init /\ [][NextSanitize]_vars

\* ================================================================ two handlers, one new target
\* insert_measurement runs in one transaction (READ COMMITTED):
\* _get_or_create_target (SELECT, then INSERT without ON CONFLICT), the
\* measurement, the hops, the UPDATE of last_seen.  targets.target_ip is
\* unique (touch_target's ON CONFLICT (target_ip) relies on that index).

trRest == <<pipeVars, beVars, cbVars, lkVars, rlVars, wkVars, tkVars, quVars, dlVars, txVars, phVars, asVars, ebVars, cwVars, tgVars, exVars, rmVars, stVars, slVars, dqVars>>

Handlers == 1..2
MaxHopsPerTrace == 2

\* handle_task: run_traceroute returned n hops; insert_measurement begins and
\* _get_or_create_target runs its SELECT, which sees committed rows only
SelectTarget(h, n) ==
    /\ tr_pc[h] = "idle"
    /\ tr_pc' = [tr_pc EXCEPT ![h] = "selected"]
    /\ tr_planned' = [tr_planned EXCEPT ![h] = n]
    /\ tr_existing' = [tr_existing EXCEPT ![h] = (\E t \in tr_targets : t.committed)]
    /\ UNCHANGED <<tr_hops, tr_targets, tr_stored, cbVars, trRest>>

\* if existing: return its id
TargetFound(h) ==
    /\ tr_pc[h] = "selected"
    /\ tr_existing[h]
    /\ tr_pc' = [tr_pc EXCEPT ![h] = "target"]
    /\ UNCHANGED <<tr_existing, tr_planned, tr_hops, tr_targets, tr_stored, cbVars, trRest>>

\* INSERT INTO targets (target_ip, source) VALUES ($1, $2) RETURNING id: waits
\* while another transaction holds an uncommitted row for the address, raises
\* UniqueViolationError when a committed one exists (the transaction is rolled
\* back, handle_task logs the error)
InsertTarget(h) ==
    /\ tr_pc[h] = "selected"
    /\ ~tr_existing[h]
    /\ \A t \in tr_targets : t.committed
    /\ IF tr_targets # {}
       THEN /\ tr_pc' = [tr_pc EXCEPT ![h] = "failed"]
            /\ UNCHANGED tr_targets
       ELSE /\ tr_pc' = [tr_pc EXCEPT ![h] = "target"]
            /\ tr_targets' = tr_targets \cup {[by |-> h, committed |-> FALSE]}
    /\ UNCHANGED <<tr_existing, tr_planned, tr_hops, tr_stored, cbVars, trRest>>

\* INSERT INTO measurements ... RETURNING id
InsertMeasurementStmt(h) ==
    /\ tr_pc[h] = "target"
    /\ tr_pc' = [tr_pc EXCEPT ![h] = "measurement"]
    /\ UNCHANGED <<tr_existing, tr_planned, tr_hops, tr_targets, tr_stored, cbVars, trRest>>

\* for hop_number, hop_ip, rtt_ms in hops_list: INSERT INTO hops
InsertHopStmt(h) ==
    /\ tr_pc[h] = "measurement"
    /\ tr_hops[h] < tr_planned[h]
    /\ tr_hops' = [tr_hops EXCEPT ![h] = @ + 1]
    /\ UNCHANGED <<tr_pc, tr_existing, tr_planned, tr_targets, tr_stored, cbVars, trRest>>

\* UPDATE targets SET last_seen; the transaction commits
CommitMeasurement(h) ==
    /\ tr_pc[h] = "measurement"
    /\ tr_hops[h] = tr_planned[h]
    /\ tr_pc' = [tr_pc EXCEPT ![h] = "done"]
    /\ tr_targets' = {[t EXCEPT !.committed = t.committed \/ t.by = h] : t \in tr_targets}
    /\ tr_stored' = tr_stored \cup {[by |-> h, hops |-> tr_hops[h]]}
    /\ UNCHANGED <<tr_existing, tr_planned, tr_hops, cbVars, trRest>>

NextTargetRace ==
    \E h \in Handlers :
        \/ \E n \in 1..MaxHopsPerTrace : SelectTarget(h, n)
        \/ TargetFound(h)
        \/ InsertTarget(h)
        \/ InsertMeasurementStmt(h)
        \/ InsertHopStmt(h)
        \/ CommitMeasurement(h)

SpecTargetRace == Init /\ [][NextTargetRace]_vars

\* ------------------------------------- the enricher behind unresolvable hops
\* Traceroutes that start inside a site: the first hops answer from private
\* addresses (address 3), for which lookup_asn never gives an origin AS.
LanPaths ==
    { <<HopIn(3, 1), HopIn(3, 1), HopIn(3, 2)>>,
      <<HopIn(3, 1), HopIn(1, 2)>>,
      <<HopIn(1, 1), HopIn(2, 2)>> }

\* The hop positions of the paths above and of TracePaths
HopPositions == 1..3

\* worker.handle_task -> pg.insert_measurement, for a trace out of a site
WorkerInsertLan ==
    /\ Len(measurements) < MaxMeas
    /\ \E path \in LanPaths :
        /\ measurements' = Append(measurements,
               [success |-> TRUE, enriched |-> FALSE,
                graph_built |-> FALSE, source |-> "worker"])
        /\ hops' = Append(hops, path)
    /\ gb_done' = Append(gb_done, NoProjection)
    /\ UNCHANGED <<en_pc, en_records, en_idx, en_mids, gb_pc, gb_queue, gb_edges,
                   gb_fails, nodes, routes, upserts>>
    /\ UNCHANGED <<beVars, cbVars, extVars>>

\* process_batch writes hop i of measurement m with what lookup_asn gives for
\* its address when the lookup goes through.
ResolveHop(m, i) ==
    /\ en_pc = "update"
    /\ en_records[en_idx] = <<m, i>>
    /\ EnricherUpdateHop
    /\ hops'[m][i].asn = AsnOf(hops[m][i].ip)

NextStarve ==
    \/ WorkerInsertLan
    \/ EnricherRunOnce
    \/ EnricherUpdateHop
    \/ EnricherMark

SpecStarve == Init /\ [][NextStarve]_vars

\* enricher.main_loop keeps running batches, and a lookup that is tried again
\* and again goes through in the end (the address resolves).
FairStarve ==
    /\ SpecStarve
    /\ WF_vars(EnricherStep)
    /\ \A m \in 1..MaxMeas, i \in HopPositions : SF_vars(ResolveHop(m, i))

\* ------------------------------------------- process_cycle and dns_queries
\* One collector on a host whose clock is UTC.  A query is named by its time;
\* the query of time 2 is a reverse lookup (its domain ends in .in-addr.arpa).
dqRest == <<pipeVars, beVars, cbVars, lkVars, rlVars, wkVars, tkVars, quVars, dlVars, txVars, phVars, asVars, ebVars, cwVars, tgVars, exVars, rmVars, stVars, slVars, trVars>>

\* _ignore_query
IgnoreQuery(t) == t = 2

\* the Pi-hole answers a client and logs the query; its clock moves forward
QueryLogged(t) ==
    /\ \A u \in dq_log : u < t
    /\ dq_log' = dq_log \cup {t}
    /\ UNCHANGED <<dq_cursor, dq_queries, dq_db_up, dq_last, cbVars, dqRest>>

\* PostgreSQL goes down or comes back
DatabaseChange(up) ==
    /\ dq_db_up # up
    /\ dq_db_up' = up
    /\ UNCHANGED <<dq_log, dq_cursor, dq_queries, dq_last, cbVars, dqRest>>

\* insert_dns_queries: nothing to do for an empty batch; otherwise one
\* executemany, which writes every row or raises: [rows, raised]
InsertDnsQueries(rows, batch) ==
    IF batch = {} THEN [rows |-> rows, raised |-> FALSE]
    ELSE IF dq_db_up THEN [rows |-> rows \cup batch, raised |-> FALSE]
    ELSE [rows |-> rows, raised |-> TRUE]

\* one turn of run_collector's loop: process_cycle.  fetch_new gives the
\* logged queries beyond last_seen_ts and sets last_seen_ts to the latest of
\* them before it returns; the filter and insert_dns_queries come after.
\* later_raises: _resolve_batch, upsert_dns_targets, touch_target or enqueue
\* raises.  `except Exception` of run_collector logs, and the loop sleeps.
DnsProcessCycle(later_raises) ==
    LET queries_raw == Accepted(dq_log, dq_cursor)
        filtered == {t \in queries_raw : ~IgnoreQuery(t)}
        ins == InsertDnsQueries(dq_queries, filtered)
    IN /\ dq_cursor' = IF queries_raw # {} THEN NewCursor(queries_raw, 0) ELSE dq_cursor
       /\ dq_queries' = ins.rows
       /\ dq_last' = <<[raw |-> queries_raw, filtered |-> filtered,
                        raised |-> ins.raised \/ later_raises]>>
       /\ UNCHANGED <<dq_log, dq_db_up, cbVars, dqRest>>

NextCollect ==
    \/ \E t \in 1..MaxTs : QueryLogged(t)
    \/ \E up \in BOOLEAN : DatabaseChange(up)
    \/ \E later_raises \in BOOLEAN : DnsProcessCycle(later_raises)

SpecCollect == Init /\ [][NextCollect]_vars

\* ================================================================ claims
Persisted(m) == m \in MeasurementIds

\* C1: for every measurement, enriched and graph_built never go back from
\* true to false, and graph_built is true only if enriched is true, in every
\* state reachable by any interleaving of the writers, the enricher and the
\* projector.
C1_Lifecycle ==
    /\ [](\A m \in MeasurementIds : measurements[m].graph_built => measurements[m].enriched)
    /\ [][\A m \in MeasurementIds :
            /\ measurements[m].enriched => measurements'[m].enriched
            /\ measurements[m].graph_built => measurements'[m].graph_built]_vars

\* a measurement written by the worker has gone through both transitions
C1_Witness ==
    \E m \in MeasurementIds :
        /\ measurements[m].source = "worker"
        /\ measurements[m].enriched
        /\ measurements[m].graph_built

\* C2: whenever no enrichment batch is in progress, a measurement is enriched
\* exactly when it has no hop with an address and without ASN.  Stated for
\* the successful measurements, the ones the enricher serves.
C2_EnrichedIffNoneRemaining ==
    en_pc = "idle" =>
        \A m \in MeasurementIds :
            measurements[m].success =>
                (measurements[m].enriched <=> (RemainingUnenrichedHops(m) = 0))

\* C3: with the graph store reachable and fair scheduling, a persisted
\* measurement whose remaining_unenriched_hops is 0 is eventually enriched
\* and then graph_built.  Stated for the successful measurements, the ones
\* the enricher serves.
C3_EventuallyBuilt ==
    \A m \in 1..MaxMeas :
        (Persisted(m) /\ measurements[m].success /\ RemainingUnenrichedHops(m) = 0)
            ~> (Persisted(m) /\ measurements[m].enriched /\ measurements[m].graph_built)

SetMin(S) == CHOOSE x \in S : \A y \in S : x <= y
SetMax(S) == CHOOSE x \in S : \A y \in S : y <= x

\* C5: after any sequence of upserts of one edge, observed_count is the
\* number of upserts and min_rtt / max_rtt are the minimum / maximum of the
\* non-null RTTs upserted so far, null only if none was ever known.
C5_EdgeAggregates ==
    \A r \in routes :
        LET h == upserts[<<r.a, r.b>>]
        IN /\ r.observed_count = h.count
           /\ r.min_rtt = IF h.known = {} THEN NULL ELSE SetMin(h.known)
           /\ r.max_rtt = IF h.known = {} THEN NULL ELSE SetMax(h.known)

\* the part of C5 about the counter alone
C5_CountIsUpserts ==
    \A r \in routes : r.observed_count = upserts[<<r.a, r.b>>].count

RECURSIVE Occurrences(_, _, _)
Occurrences(edges, i, k) ==
    IF i > Len(edges) THEN 0
    ELSE (IF <<edges[i].a, edges[i].b>> = k THEN 1 ELSE 0) + Occurrences(edges, i + 1, k)

RECURSIVE ExpectedCount(_, _)
ExpectedCount(m, k) ==
    IF m > Len(measurements) THEN 0
    ELSE (IF measurements[m].graph_built THEN Occurrences(gb_done[m].edges, 1, k) ELSE 0)
         + ExpectedCount(m + 1, k)

\* C6: each measurement counts once per edge of its path: when nothing is
\* left to project, the counter of every edge is the number of times the edge
\* lies on the paths of the projected measurements, whether or not a
\* projection was interrupted and replayed.
C6_ReplayIdempotent ==
    (gb_pc = "idle" /\ \A m \in MeasurementIds : measurements[m].enriched => measurements[m].graph_built)
        => \A r \in routes : r.observed_count = ExpectedCount(1, <<r.a, r.b>>)

\* C7: every ASN that appears on a projected measurement has an AS node
\* (a single-ASN path included: one node, no edge).
C7_NodesOfProjected ==
    \A m \in MeasurementIds :
        measurements[m].graph_built => gb_done[m].asns \subseteq nodes

\* the part of C7 that holds: a single-ASN path adds no ROUTE edge and the
\* measurement is marked graph_built
C7_SingleAsnNoEdge ==
    \A m \in MeasurementIds :
        (measurements[m].graph_built /\ Cardinality(gb_done[m].asns) = 1)
            => gb_done[m].edges = <<>>


\* the hop rows with an ASN, in hop_number order
WithAsn(hs) == LET HasAsn(h) == h.asn # NULL IN SelectSeq(hs, HasAsn)

\* the larger of two RTTs of which either may be unknown
LargerKnown(x, y) == IF x = NULL THEN y ELSE IF y = NULL THEN x ELSE IF x >= y THEN x ELSE y

\* C8: the edges emitted are exactly the consecutive pairs of hops with an
\* ASN (hops without ASN skipped) whose ASNs differ, in order, one edge per
\* pair, with rtt the larger of the two known RTTs or null when both are
\* null; no edge joins an ASN to itself.
C8_EdgesAreTransitions ==
    be_pc = "done" =>
        LET f == WithAsn(be_hops)
            pairs == {i \in 1..(Len(f) - 1) : f[i].asn # f[i + 1].asn}
            Nth(k) == CHOOSE i \in pairs : Cardinality({j \in pairs : j <= i}) = k
        IN /\ Len(be_edges) = Cardinality(pairs)
           /\ \A k \in 1..Len(be_edges) :
                /\ be_edges[k] = [a |-> f[Nth(k)].asn, b |-> f[Nth(k) + 1].asn,
                                  rtt |-> LargerKnown(f[Nth(k)].rtt, f[Nth(k) + 1].rtt)]
                /\ be_edges[k].a # be_edges[k].b

\* two edges from a list with a hop without ASN inside a pair, one edge
\* without RTT and one with two different RTTs
C8_Witness ==
    /\ be_pc = "done"
    /\ Len(be_edges) = 2
    /\ \E i \in 2..(Len(be_hops) - 1) : be_hops[i].asn = NULL
    /\ be_edges[1].rtt = 2
    /\ be_hops[1].rtt = 1

\* C9: after failure_threshold consecutive record_failure() calls with no
\* record_success() between them the breaker is OPEN; every is_open() made
\* less than recovery_time after the most recent record_failure() then
\* returns true; and a CLOSED breaker opens only when failure_threshold
\* failures have been recorded since the last record_success().
C9_OpensAfterThreshold ==
    /\ []((cb_op = "record_failure" /\ cb_consec >= FailureThreshold) => cb.state = "open")
    /\ []((cb_op = "is_open" /\ cb_consec >= FailureThreshold /\ now - cb_failed_at < RecoveryTime)
            => cb_ret)
    /\ [][(cb.state = "closed" /\ cb'.state = "open") => cb_consec' >= FailureThreshold]_vars

\* the threshold-th failure, recorded after the clock had advanced, opened
\* the breaker, and a later check inside the recovery time was refused
C9_Witness ==
    /\ cb_op = "is_open"
    /\ cb_ret
    /\ cb.state = "open"
    /\ cb_consec = FailureThreshold
    /\ cb.failures = FailureThreshold
    /\ cb_failed_at >= 1
    /\ now > cb_failed_at

\* C10: once the breaker is HALF_OPEN, at most half_open_max_calls checks
\* are let through (is_open() returns false) before a record_success() or a
\* record_failure() is recorded.
C10_HalfOpenLimit == cb_passed <= HalfOpenMaxCalls

\* C11: the breaker state changes only CLOSED to OPEN by a record_failure()
\* that brings the counter to failure_threshold, OPEN to HALF_OPEN by an
\* is_open() made recovery_time or more after the last failure, HALF_OPEN to
\* CLOSED by a record_success() that zeroes the counter, and HALF_OPEN to
\* OPEN by a record_failure() that restarts the recovery timer; in HALF_OPEN
\* one record_success() or one record_failure() is enough, and a CLOSED
\* breaker never holds failure_threshold failures.
C11_Transitions ==
    /\ [](cb.state = "closed" => cb.failures < FailureThreshold)
    /\ [][cb'.state # cb.state =>
            \/ /\ cb.state = "closed" /\ cb'.state = "open"
               /\ cb_op' = "record_failure"
               /\ cb'.failures >= FailureThreshold
            \/ /\ cb.state = "open" /\ cb'.state = "half_open"
               /\ cb_op' = "is_open"
               /\ now - cb_failed_at >= RecoveryTime
            \/ /\ cb.state = "half_open" /\ cb'.state = "closed"
               /\ cb_op' = "record_success"
               /\ cb'.failures = 0
            \/ /\ cb.state = "half_open" /\ cb'.state = "open"
               /\ cb_op' = "record_failure"
               /\ cb'.last_failure_time = now]_vars
    /\ [][(cb.state = "half_open" /\ cb_op' = "record_success") => cb'.state = "closed"]_vars
    /\ [][(cb.state = "half_open" /\ cb_op' = "record_failure") => cb'.state = "open"]_vars

\* one run in which the breaker has made each of the four state changes
C11_Witness ==
    cb_trans = {<<"closed", "open">>, <<"open", "half_open">>,
                <<"half_open", "closed">>, <<"half_open", "open">>}

\* no coroutine is inside fetch_asn_org
NoCallInFlight == \A c \in Callers : pdb_calls[c].pc = "idle"

\* C12: when the server answers HTTP 500 and three consecutive
\* fetch_asn_org calls (for the same ASN or for different ASNs) have
\* returned, the peeringdb breaker is OPEN.
C12_ThreeFailuresOpen ==
    (pdb_mock = "500" /\ pdb_streak >= FailureThreshold /\ NoCallInFlight)
        => cb.state = "open"

\* C13: a fetch_asn_org call that found the breaker OPEN with recovery_time
\* elapsed, sent its request and got HTTP 200 leaves the breaker CLOSED when
\* it returns.
C13_OkClosesBreaker ==
    (pdb_last.recovering /\ pdb_last.resp \in {"ok_pfx", "ok", "notfound"})
        => pdb_last.state_after = "closed"

\* C15: a call that finds an entry for its key with now - ts <= ttl returns
\* the stored result, also when it is empty, without an outbound request;
\* a call that finds no entry, or one with now - ts > ttl, does not return
\* a stored result.
C15_CacheWithinTtl ==
    /\ pdb_last.hit <=> (pdb_last.age # NULL /\ pdb_last.age <= CacheTtl)
    /\ pdb_last.hit => (pdb_last.ret = pdb_last.stored /\ pdb_last.http = 0)
    /\ \A c \in Callers :
          pdb_calls[c].pc # "idle" => (pdb_calls[c].age = NULL \/ pdb_calls[c].age > CacheTtl)

\* an empty result returned from the cache on the last tick of its TTL while
\* another call, which found its entry expired, is waiting for the server
C15_Witness ==
    /\ pdb_last.hit
    /\ pdb_last.stored = "empty"
    /\ pdb_last.age = CacheTtl
    /\ \E c \in Callers : pdb_calls[c].pc = "net" /\ pdb_calls[c].age > CacheTtl

\* C16: at most one request per key is outstanding or issued within one TTL
\* period: no two coroutines wait for the answer to GET /net for the same
\* ASN at the same time.
C16_OneRequestPerKey ==
    \A c1, c2 \in Callers :
        (c1 # c2 /\ pdb_calls[c1].pc = "net" /\ pdb_calls[c2].pc = "net")
            => pdb_calls[c1].asn # pdb_calls[c2].asn

\* C17: a call whose request failed transiently (a status other than 200, a
\* timeout, a transport error) has told the breaker of a failure, returns an
\* empty result and leaves no cache entry for its key.
C17_FailureNotCached ==
    pdb_last.resp \in {"500", "timeout"}
        => /\ pdb_last.counted
           /\ pdb_last.ret = "empty"
           /\ pdb_last.asn \notin DOMAIN pdb_cache

\* the part of C17 that holds: the failure is counted and the result is empty
C17_FailureCounted ==
    pdb_last.resp \in {"500", "timeout"} => (pdb_last.counted /\ pdb_last.ret = "empty")

\* the entries of the time sequence ts that lie in the window [from, from + window_seconds)
InWindowFrom(ts, from) == {i \in DOMAIN ts : from <= ts[i] /\ ts[i] < from + WindowSeconds}

\* C14: for try_acquire() calls at non-decreasing times, at most max_requests
\* of the calls in any window of window_seconds returned true; lookup_ip_api
\* sends at most max_requests requests in any such window, and when the
\* limiter refuses it returns an empty result without sending a request.
C14_WindowLimit ==
    /\ \A from \in 0..MaxTime : Cardinality(InWindowFrom(rl_granted, from)) <= MaxRequests
    /\ \A from \in 0..MaxTime : Cardinality(InWindowFrom(rl_sent, from)) <= MaxRequests
    /\ rl_last.refused => (~rl_last.sent /\ rl_last.ret = "empty")

\* a lookup refused by a full window, after earlier tokens had expired and
\* been replaced
C14_Witness ==
    /\ rl_last.op = "lookup_ip_api"
    /\ rl_last.refused
    /\ Len(rl_sent) > MaxRequests
    /\ Len(rl_tokens) = MaxRequests
    /\ rl_tokens[1] < now

\* the entries of the time sequence ts that lie in the window [from, from + 60 s)
InMinuteFrom(ts, from) == {i \in DOMAIN ts : from <= ts[i] /\ ts[i] < from + MinuteSeconds}

\* C18: in any 60-second window the loop creates at most
\* rate_limit_per_minute task handlers, and a task the limiter holds back
\* gets its handler once the oldest token has left the window: the task has
\* no handler while the loop sleeps, the sleep ends, and whenever the loop is
\* back at the queue every task it has taken has its handler.
C18_StartsPerWindow ==
    /\ [](\A from \in 0..MaxWkTime :
            Cardinality(InMinuteFrom(wk_started, from)) <= RateLimitPerMinute)
    /\ [](wk_pc = "sleep" => wk_handlers[wk_task].pc = "none")
    /\ [](wk_pc = "dequeue" => \A t \in 1..wk_dequeued : wk_handlers[t].pc # "none")
    /\ (wk_pc = "sleep" /\ wk_wake < MaxWkTime) ~> (wk_pc = "dequeue")

\* a task that was held back by a full window has got its handler
C18_Witness ==
    \E t \in wk_held :
        /\ wk_handlers[t].pc # "none"
        /\ Len(wk_started) > RateLimitPerMinute

\* C19: in any 60-second window at most rate_limit_per_minute traceroutes
\* complete, whatever the task durations up to task_timeout_seconds.
C19_CompletionsPerWindow ==
    \A from \in 0..MaxWkTime :
        Cardinality(InMinuteFrom(wk_completed, from)) <= RateLimitPerMinute

\* the handlers between acquiring and releasing the semaphore
Running == {t \in Tasks : wk_handlers[t].pc = "running"}

\* C20: at most max_concurrent_traceroutes handlers hold the semaphore at
\* any moment, and every handler that has ended, by completion, exception
\* or timeout, has given its slot back: free slots plus running handlers is
\* always max_concurrent_traceroutes.
C20_SemaphoreBound ==
    /\ Cardinality(Running) <= MaxConcurrent
    /\ wk_sem + Cardinality(Running) = MaxConcurrent

\* all slots taken, one of them given back before by a handler that timed out
C20_Witness ==
    /\ Cardinality(Running) = MaxConcurrent
    /\ wk_sem = 0
    /\ \E t \in Tasks : wk_handlers[t].pc = "timeout"

\* C21: a handler that timed out has no live traceroute child process and
\* no stored measurement, and the live child processes never outnumber
\* max_concurrent_traceroutes.
C21_KilledOnTimeout ==
    /\ \A t \in Tasks : tk_handlers[t].pc = "timeout" => t \notin tk_procs /\ t \notin tk_rows
    /\ Cardinality(tk_procs) <= MaxConcurrent

\* the part of C21 the code keeps: nothing is stored for a task that timed out
C21_NothingStoredOnTimeout ==
    \A t \in Tasks : tk_handlers[t].pc = "timeout" => t \notin tk_rows

\* the consequence C21 draws, on its own
C21_LiveChildrenBound == Cardinality(tk_procs) <= MaxConcurrent

\* C22: after the interrupt no task is dequeued, and the pool and the queue
\* connection are closed only when every handler that was created has
\* completed or timed out.
C22_OrderlyShutdown ==
    /\ [][tk_loop # "dequeue" => tk_dequeued' = tk_dequeued]_vars
    /\ [](tk_pool = "closed" \/ tk_queue = "closed" =>
            \A t \in Tasks : tk_handlers[t].pc \in {"none", "ok", "error", "timeout"})

\* the part of C22 the code keeps: the loop is left for good
C22_NoDequeueAfterInterrupt ==
    [][tk_loop # "dequeue" => tk_dequeued' = tk_dequeued /\ tk_loop' # "dequeue"]_vars

\* the tasks dequeue() has returned, without the None results
RECURSIVE Flatten(_)
Flatten(ss) == IF ss = <<>> THEN <<>> ELSE Head(ss) \o Flatten(Tail(ss))
Returned_Tasks == Flatten(qu_out)

\* C23: with one producer and one consumer the tasks returned by dequeue()
\* followed by the tasks still in the list are the tasks passed to enqueue(),
\* in order and field by field, and dequeue() returns None exactly when the
\* list is empty.
C23_Fifo ==
    /\ Returned_Tasks \o [i \in 1..Len(qu_list) |-> ParseTask(qu_list[i])] = qu_in
    /\ \A i \in 1..Len(qu_out) : (qu_out[i] = <<>>) <=> qu_empty[i]

C23_Witness ==
    /\ Len(Returned_Tasks) >= 2
    /\ Returned_Tasks[1] # Returned_Tasks[2]
    /\ Returned_Tasks[1].domain = NULL
    /\ Returned_Tasks[2].domain # NULL
    /\ \E i \in 1..Len(qu_out) : qu_out[i] = <<>>
    /\ qu_list # <<>>

\* C24: every enqueued task is eventually followed by a stored measurement
\* for its target_ip, whatever its source and also when tasks are lost
\* between the dequeue and the insert.
C24_AtLeastOnce ==
    \A ip \in TargetIps : (ip \in dl_pending) ~> (ip \notin dl_pending)

\* the part of C24 the code keeps: tasks whose target has a row in targets
C24_TouchedTargetsDelivered ==
    \A ip \in TargetIps : (ip \in dl_pending /\ ip \in dl_targets) ~> (ip \notin dl_pending)

\* C25: no reader has read a measurement with only part of its hops, and a
\* measurement that is marked enriched has all the hops of its traceroute.
C25_AllOrNone ==
    /\ ~rd_partial
    /\ \A m \in 1..MaxTx : tx_rows[m].enriched => tx_rows[m].nhops = tx_rows[m].planned

\* a transaction with two hops is open with one of them written, beside a
\* committed measurement of two hops that the enricher has marked
C25_Witness ==
    \E m, k \in 1..MaxTx :
        /\ tx_rows[m].status = "open" /\ tx_rows[m].planned = 2 /\ tx_rows[m].nhops = 1
        /\ tx_rows[k].status = "committed" /\ tx_rows[k].enriched /\ tx_rows[k].planned = 2

\* C26: the cursor last_seen_ts never decreases, every record a fetch emits
\* has a time greater than the cursor at the start of that fetch, and after a
\* fetch that emitted records the cursor is the largest time among them.
C26_Cursor ==
    /\ [][ph_cursor' >= ph_cursor]_vars
    /\ [](\A t \in ph_last.emitted : t > ph_last.start)
    /\ [](ph_last.emitted # {} => \A t \in ph_last.emitted : t <= ph_last.cursor)
    /\ [](ph_last.emitted # {} => ph_last.cursor \in ph_last.emitted)

\* the part of C26 the code keeps in every time zone
C26_EmittedAfterCursor == \A t \in ph_last.emitted : t > ph_last.start

\* all of C26 where the collector runs in UTC
C26_CursorInUtc ==
    /\ [][ph_utcoffset' = 0 => ph_cursor' >= ph_cursor]_vars
    /\ [](ph_utcoffset = 0 /\ ph_last.emitted # {} =>
            /\ \A t \in ph_last.emitted : t <= ph_last.cursor
            /\ ph_last.cursor \in ph_last.emitted)

\* C27: v6 is selected on 200 with a session id, 401/403 raises the
\* authentication error without selecting v5, v5 is selected only on 404/405,
\* a selected dialect never changes, and a 401 on the queries call gives one
\* re-authentication and, when that succeeds, one retry in that fetch.
C27_Dialect ==
    /\ [](ph_version = "v5" => ph_selected_on = "404")
    /\ [](ph_version = "v6" => ph_selected_on \in {"200_sid", "401"})
    /\ [][ph_version # "none" => ph_version' = ph_version]_vars
    /\ [](ph_last.expired => ph_last.reauths = 1 /\ ph_last.retries <= 1)

\* the parts of C27 the code keeps
C27_DialectKept ==
    /\ [](ph_version = "v6" => ph_selected_on \in {"200_sid", "401"})
    /\ [](ph_selected_on = "401" => ph_version = "v6")
    /\ [][ph_version # "none" => ph_version' = ph_version]_vars
    /\ [](ph_last.expired => ph_last.reauths = 1 /\ ph_last.retries <= 1)
    /\ [](~ph_last.expired => ph_last.reauths = 0 /\ ph_last.retries = 0)

\* C28: a fetch that starts after the authentication error was raised, with
\* the settings unchanged since, sends no request to the Pi-hole.
C28_SilentAfterAuthError == ph_last.silent => ph_last.requests = 0

\* C29: a restart request is followed by a state in which the request is
\* taken and the source is new (no dialect, no session, cursor 0).
C29_RestartRebuilds ==
    ph_restart ~> (~ph_restart /\ ph_version = "none" /\ ~ph_sid /\ ph_cursor = 0)

\* ---------------------------------------------------------------- C30
\* C30: a second upsert_asn call with the same arguments as the call before it
\* leaves every field of the ASN's row as the first call left it, and no call
\* (so none whose arguments are all None, after one that set every field)
\* turns a field of the row that was not null into null.
C30_IdempotentNeverNulls ==
    /\ [][as_twice' => asns' = asns]_vars
    /\ [][asns # <<>> => /\ asns' # <<>>
                         /\ \A f \in AsnFields : asns[1][f] # <<>> => asns'[1][f] # <<>>]_vars

\* a call with every argument None, made twice, on a row with every field set
\* (only a call that set them can have left it so)
C30_Witness ==
    /\ as_twice
    /\ as_patch = <<[f \in AsnFields |-> <<>>]>>
    /\ asns # <<>>
    /\ \A f \in AsnFields : asns[1][f] # <<>>

\* ---------------------------------------------------------------- C31
\* C31: after a batch the source stored for the ASN is the best source
\* (cymru < external < peeringdb) among those whose data went into the ASN's
\* patch, and no batch lowers the stored source.
C31_BestSourceStored ==
    /\ [](eb_last.done => asns[1].source = BestSource(eb_last.contributed))
    /\ [][asns # <<>> => SourceRank(asns'[1].source) >= SourceRank(asns[1].source)]_vars

\* what holds: when PeeringDB data went into the patch the stored source is
\* peeringdb, and the stored source is never null
C31_PeeringdbLabelled ==
    eb_last.done =>
        /\ asns[1].source # <<>>
        /\ "peeringdb" \in eb_last.contributed => asns[1].source = <<"peeringdb">>

\* ---------------------------------------------------------------- C32
\* C32: when both writers have returned, neither upsert raised, the ASN has
\* exactly one row, and every field either writer supplied is non-null in it.
C32_BothWritersComplete ==
    (\A w \in Writers : cw_pc[w] \in {"done", "failed"}) =>
        /\ \A w \in Writers : cw_pc[w] = "done"
        /\ Len(cw_rows) = 1
        /\ \A f \in AsnFields :
              (\E w \in Writers : cw_patch[w][1][f] # <<>>) => cw_rows[1][f] # <<>>

\* what holds: the same, when one writer's SELECT came after the other's write
C32_OneAfterTheOther ==
    ((\A w \in Writers : cw_pc[w] \in {"done", "failed"}) /\ (\E w \in Writers : cw_existing[w])) =>
        /\ \A w \in Writers : cw_pc[w] = "done"
        /\ Len(cw_rows) = 1
        /\ \A f \in AsnFields :
              (\E w \in Writers : cw_patch[w][1][f] # <<>>) => cw_rows[1][f] # <<>>

\* ---------------------------------------------------------------- C33
\* C33: no write lowers a target's last_seen, and no operation removes a
\* target's row.
C33_LastSeenMonotone ==
    [][\A ip \in TargetIps :
          tg_last_seen[ip] # NULL =>
              tg_last_seen'[ip] # NULL /\ tg_last_seen'[ip] >= tg_last_seen[ip]]_vars

\* what holds: a target's row is never removed and last_seen is never in the future
C33_NeverDeleted ==
    /\ [][\A ip \in TargetIps : tg_last_seen[ip] # NULL => tg_last_seen'[ip] # NULL]_vars
    /\ [](\A ip \in TargetIps : tg_last_seen[ip] <= tg_now)

\* ---------------------------------------------------------------- C34
\* C34: at the end of a run every ASN the run selected has
\* enrichment_completed_at = the time of the run.
C34_SelectedAreMarked ==
    \A a \in ex_last.selected : ex_completed[a] = ex_last.at

\* C34, its consequence: every ASN is eventually selected by some run
C34_EveryAsnSelected == \A a \in ExpAsns : <>(a \in ex_ever)

\* what holds: an ASN that was marked is not selected again until more than
\* seven days have passed, and a run selects at most max_asns_per_run ASNs
C34_MarkedNotReselected ==
    /\ Cardinality(ex_last.selected) <= MaxAsnsPerRun
    /\ \A a \in ex_last.selected :
          ex_completed[a] = NULL \/ ex_completed[a] = ex_last.at
              \/ ex_completed[a] < ex_last.at - SevenDays

\* ---------------------------------------------------------------- C35
\* C35: a cycle enqueues only targets that, when the cycle read them, had no
\* measurement or a latest completed_at older than interval_hours; at most
\* targets_per_run tasks, no target twice, every task with source
\* remeasurement; a cycle with remeasurement disabled enqueues nothing.
C35_OnlyStaleTargets ==
    rm_last.ran =>
        /\ \A i \in 1..Len(rm_last.enqueued) :
              LET task == rm_last.enqueued[i]
                  last == rm_last.measured[task.target_ip]
              IN  /\ last = NULL \/ last < rm_last.at - IntervalHours
                  /\ task.source = "remeasurement"
                  /\ \A j \in 1..Len(rm_last.enqueued) :
                        rm_last.enqueued[j].target_ip = task.target_ip => j = i
        /\ Len(rm_last.enqueued) <= TargetsPerRun
        /\ ~rm_last.enabled => rm_last.enqueued = <<>>

\* a cycle that enqueued targets_per_run targets, left a never measured target
\* for the next cycle, while another target had a recent measurement
C35_Witness ==
    /\ rm_last.ran /\ rm_last.enabled
    /\ Len(rm_last.enqueued) = TargetsPerRun
    /\ \E ip \in RmTargets :
          /\ rm_last.measured[ip] # NULL
          /\ rm_last.measured[ip] >= rm_last.at - IntervalHours

\* ---------------------------------------------------------------- C36
\* C36: once a consumer has gone through a loop iteration after its settings
\* key was written, the values it runs with are the stored ones, missing
\* fields replaced by the defaults.
C36_SettingsTakeEffect ==
    /\ (st_pc = "run" /\ st_age["worker_settings"] = 1) =>
          st_used = SettingsWithDefaults("worker_settings")
    /\ st_age["enrichment_settings"] = 1 =>
          st_sleep = SettingsWithDefaults("enrichment_settings")["poll_interval_seconds"]

\* what holds: the worker starts its loop with the stored settings merged
\* with the defaults
C36_LoadedAtStart ==
    [][(st_pc = "boot" /\ st_pc' = "run") => st_used' = SettingsWithDefaults("worker_settings")]_vars

\* ---------------------------------------------------------------- C37
\* the dictionary the claim describes: the same keys; the value of a
\* sensitive key redacted, a nested dictionary sanitized the same way, every
\* other value as it was
RECURSIVE C37_Expected(_)
C37_Expected(data) ==
    [kind |-> "dict",
     items |-> [key \in DOMAIN data.items |->
                   IF IsSensitive(key) THEN Redacted
                   ELSE IF data.items[key].kind = "dict" THEN C37_Expected(data.items[key])
                   ELSE data.items[key]]]

\* C37: sanitize_log_data returns a dictionary with the keys of its input,
\* the values of sensitive keys (whatever their case) redacted, nested
\* dictionaries sanitized the same way and every other value unchanged.
C37_Redacted ==
    sl_call # <<>> => sl_call[1].result = <<C37_Expected(sl_call[1].data)>>

\* what holds: the same for dictionaries that hold no list starting with a dictionary
C37_RedactedWithoutDictLists ==
    (/\ sl_call # <<>>
     /\ \A key \in DOMAIN sl_call[1].data.items :
           LET value == sl_call[1].data.items[key]
           IN  ~(value.kind = "list" /\ value.items # <<>> /\ value.items[1].kind = "dict"))
    => sl_call[1].result = <<C37_Expected(sl_call[1].data)>>

\* ---------------------------------------------------------------- C38
\* C38: when both handlers have finished, both measurements are stored with
\* all their hops and the address has exactly one target row.
C38_BothMeasurementsStored ==
    (\A h \in Handlers : tr_pc[h] \in {"done", "failed"}) =>
        /\ \A h \in Handlers : [by |-> h, hops |-> tr_planned[h]] \in tr_stored
        /\ Cardinality(tr_targets) = 1

\* what holds: the address never has two target rows, and a stored
\* measurement has all its hops
C38_OneTargetRow ==
    /\ Cardinality(tr_targets) <= 1
    /\ \A m \in tr_stored : m.hops = tr_planned[m.by]

\* ---- C39
\* A hop of a successful measurement whose address has an origin AS
HopResolves(m, i) ==
    /\ Persisted(m)
    /\ i <= Len(hops[m])
    /\ measurements[m].success
    /\ hops[m][i].ip # NULL
    /\ AsnOf(hops[m][i].ip) # NULL

\* The hops ordered before hop (m, i) whose address never resolves
NeverResolvingBefore(m, i) ==
    {id \in (1..m) \X HopPositions :
        /\ id[2] <= Len(hops[id[1]])
        /\ (id[1] < m \/ id[2] < i)
        /\ measurements[id[1]].success
        /\ hops[id[1]][id[2]].ip # NULL
        /\ AsnOf(hops[id[1]][id[2]].ip) = NULL}

\* C39: under fair scheduling of the enricher, every hop of a successful
\* measurement whose address resolves to an AS is eventually written with that
\* AS, however many hops of older measurements never resolve.
C39_ResolvableHopWritten ==
    \A m \in 1..MaxMeas, i \in HopPositions :
        HopResolves(m, i) ~> (HopResolves(m, i) /\ hops[m][i].asn = AsnOf(hops[m][i].ip))

\* C39, what holds: the hop is written when fewer hops than the batch limit
\* are ordered before it with an address that never resolves.
C39_WrittenBehindFewUnresolvable ==
    \A m \in 1..MaxMeas, i \in HopPositions :
        (HopResolves(m, i) /\ Cardinality(NeverResolvingBefore(m, i)) < HopBatchLimit)
            ~> (HopResolves(m, i) /\ hops[m][i].asn = AsnOf(hops[m][i].ip))

\* C39: a batch made only of never-resolving hops while a resolvable hop waits
C39_Witness ==
    /\ en_pc = "update"
    /\ \A k \in 1..Len(en_records) : AsnOf(hops[en_records[k][1]][en_records[k][2]].ip) = NULL
    /\ \E m \in MeasurementIds, i \in HopPositions :
        HopResolves(m, i) /\ hops[m][i].asn = NULL

\* ---- C40
\* C40: every query fetch_new returned that was not filtered out is persisted
\* to dns_queries, also when the cycle that fetched it raised: the cursor is
\* never beyond a logged, unfiltered query that is not in dns_queries.
C40_CursorNotPastUnpersisted ==
    \A t \in dq_log : (t <= dq_cursor /\ ~IgnoreQuery(t)) => t \in dq_queries

\* C40, what holds: a cycle that does not raise leaves every unfiltered
\* query it fetched in dns_queries, and dns_queries holds only logged,
\* unfiltered queries.
C40_PersistedUnlessCycleRaises ==
    /\ dq_queries \subseteq {t \in dq_log : ~IgnoreQuery(t)}
    /\ (dq_last # <<>> /\ ~dq_last[1].raised) => dq_last[1].filtered \subseteq dq_queries

====
